---- MODULE Spec2Model ----
(***************************************************************************)
(* Model of the effects compositing engine of PIP_ArtisticWords            *)
(* (core/effects_processor.py) and of the callers that consume its result. *)
(*                                                                         *)
(* Images are functions from the pixels of a small canvas to 8-bit         *)
(* values; the Pillow primitives the code calls (paste with a mask,        *)
(* alpha_composite, MaxFilter, putalpha, point, blend) are modelled with   *)
(* the integer arithmetic Pillow uses.                                     *)
(*                                                                         *)
(* Units: an opacity is held in hundredths (50 is the Python float 0.5),   *)
(* an outline width in tenths of a pixel (10 is 1.0).  A hex colour is the *)
(* sequence of its hexadecimal digits without the leading '#'.             *)
(* The styles of the model use blur = 0 and glow radius = 0, for which     *)
(* the code applies no Gaussian filtering.                                 *)
(***************************************************************************)
EXTENDS Integers, Sequences, FiniteSets, TLC

(* ------------------------------ bounds -------------------------------- *)
Width == 3
Height == 2
MaxInk == 2
MaxKeys == 2

Xs == 0 .. (Width - 1)
Ys == 0 .. (Height - 1)
Pixels == Xs \X Ys
AlphaLevels == {0, 100, 200, 255}

(* --------------------------- Pillow primitives ------------------------ *)
Max2(a, b) == IF a >= b THEN a ELSE b
Min2(a, b) == IF a <= b THEN a ELSE b

SHIFTFORDIV255(a) == ((a \div 256) + a) \div 256
DIV255(a) == SHIFTFORDIV255(a + 128)
BLEND(mask, in1, in2) == DIV255(in1 * (255 - mask) + in2 * mask)

Px(r, g, b, a) == [r |-> r, g |-> g, b |-> b, a |-> a]
Transparent == Px(0, 0, 0, 0)

\* Image.new(mode, size, colour)
NewImage(colour) == [p \in Pixels |-> colour]

\* img.split()[3]
AlphaOf(img) == [p \in Pixels |-> img[p].a]

\* img.putalpha(band)
PutAlpha(img, band) == [p \in Pixels |-> [img[p] EXCEPT !.a = band[p]]]

\* Position of pixel p in a source pasted at offset (ox, oy)
Src(p, ox, oy) == <<p[1] - ox, p[2] - oy>>

\* dst.paste(src, (ox, oy), mask) for 4-band images with an "L" mask or the
\* alpha band of an "RGBA" mask: every band, alpha included, is blended.
PasteMasked(dst, src, mask, ox, oy) ==
    [p \in Pixels |->
        IF Src(p, ox, oy) \in Pixels
        THEN LET s == src[Src(p, ox, oy)]
                 m == mask[Src(p, ox, oy)]
                 d == dst[p]
             IN  Px(BLEND(m, d.r, s.r), BLEND(m, d.g, s.g),
                    BLEND(m, d.b, s.b), BLEND(m, d.a, s.a))
        ELSE dst[p]]

\* dst.paste(src, (ox, oy)) for single-band images, clipped to the canvas
PasteBand(dst, src, ox, oy) ==
    [p \in Pixels |->
        IF Src(p, ox, oy) \in Pixels THEN src[Src(p, ox, oy)] ELSE dst[p]]

\* Variant: the binary mask is set wherever the mask is nonzero
BinaryMaskOfNonzero(mask) == [p \in Pixels |-> IF mask[p] # 0 THEN 1 ELSE 0]

\* binary_mask = Image.new('1', size, 0); binary_mask.paste(1, (0, 0), mask):
\* the ink 1 is blended into the 8-bit storage of the mode "1" image.
BinaryMaskOf(mask) == [p \in Pixels |-> BLEND(mask[p], 0, 1)]

\* dst.paste(src, (0, 0), bin) with a mode "1" mask: copy where the mask is set
PasteBinary(dst, src, bin) ==
    [p \in Pixels |-> IF bin[p] # 0 THEN src[p] ELSE dst[p]]

\* Image.alpha_composite(dst, src), one pixel (7 bits of extra precision)
CompositePixel(d, s) ==
    IF s.a = 0 THEN d
    ELSE LET blend == d.a * (255 - s.a)
             outa255 == s.a * 255 + blend
             coef1 == (s.a * 255 * 255 * 128) \div outa255
             coef2 == 255 * 128 - coef1
             ch(sc, dc) == SHIFTFORDIV255(sc * coef1 + dc * coef2 + 128 * 128) \div 128
         IN  Px(ch(s.r, d.r), ch(s.g, d.g), ch(s.b, d.b),
                SHIFTFORDIV255(outa255 + 128))

AlphaComposite(dst, src) == [p \in Pixels |-> CompositePixel(dst[p], src[p])]

\* ImageFilter.MaxFilter(3): maximum over the 3x3 neighbourhood
Neighbours(p) ==
    {q \in Pixels : q[1] - p[1] \in {-1, 0, 1} /\ q[2] - p[2] \in {-1, 0, 1}}

SetMax(S) == CHOOSE m \in S : \A n \in S : n <= m

\* Variant: the maximum over the eight pixels around, the pixel itself left out
MaxFilter3Hollow(band) ==
    [p \in Pixels |-> SetMax({0} \cup {band[q] : q \in Neighbours(p) \ {p}})]

MaxFilter3(band) == [p \in Pixels |-> SetMax({band[q] : q \in Neighbours(p)})]

RECURSIVE Dilate(_, _)
Dilate(band, n) == IF n <= 0 THEN band ELSE Dilate(MaxFilter3(band), n - 1)

\* band.point(lambda x: int(x * opacity)), opacity in hundredths
ScaleAlpha(x, opacity) == (x * opacity) \div 100
PointScale(band, opacity) == [p \in Pixels |-> ScaleAlpha(band[p], opacity)]

\* dict.get(key, default)
Get(d, key, default) == IF key \in DOMAIN d THEN d[key] ELSE default

(* ------------------------------ colours ------------------------------- *)
\* EffectsProcessor.hex_to_rgba: hex is the digit sequence after lstrip('#')
HexByte(hex, i) == 16 * hex[i] + hex[i + 1]

\* A propagating Python exception, as the value of the call that raised it
ValueError == [exc |-> "ValueError"]
IsError(v) == "exc" \in DOMAIN v

\* int(s, 16) accepts the digit codes 0 .. 15; any other code stands for a
\* character that is not a hexadecimal digit
IsHex(hex) == \A i \in 1 .. Len(hex) : hex[i] \in 0 .. 15

hex_to_rgba(hex, alpha) ==
    IF Len(hex) \in {6, 8} /\ ~IsHex(hex) THEN ValueError
    ELSE IF Len(hex) = 6
    THEN Px(HexByte(hex, 1), HexByte(hex, 3), HexByte(hex, 5), alpha)
    ELSE IF Len(hex) = 8
    THEN Px(HexByte(hex, 1), HexByte(hex, 3), HexByte(hex, 5),
            IF alpha # 255 THEN alpha ELSE HexByte(hex, 7))
    ELSE Px(255, 255, 255, alpha)

Rgb(c) == <<c.r, c.g, c.b>>

Black == <<0, 0, 0, 0, 0, 0>>
White == <<15, 15, 15, 15, 15, 15>>
Red == <<15, 15, 0, 0, 0, 0>>
Green == <<0, 0, 15, 15, 0, 0>>
Blue == <<0, 0, 0, 0, 15, 15>>
Yellow == <<15, 15, 15, 15, 0, 0>>
Magenta == <<15, 15, 2, 14, 13, 11>>
Pink == <<14, 14, 2, 8, 8, 3>>
Sand == <<15, 15, 13, 12, 7, 13>>
DefaultFillHex == <<4, 0, 9, 6, 15, 15>>
\* '#GGGGGG', '#FF0000ZZ' and '#FFF': not hexadecimal, or of a wrong length
NotHex6 == <<16, 16, 16, 16, 16, 16>>
NotHex8 == <<15, 15, 0, 0, 0, 0, 16, 16>>
ShortHex == <<15, 15, 15>>
\* '#FF000080' and '#00000080': eight digits, the last two an alpha of 128
HalfRed == <<15, 15, 0, 0, 0, 0, 8, 0>>
HalfBlack == <<0, 0, 0, 0, 0, 0, 8, 0>>

(* ------------------------------ gradient ------------------------------ *)
\* Endpoints (x1, y1, x2, y2) of the gradient line of a named direction
GradientLine(direction) ==
    CASE direction = "left_right" -> <<0, Height \div 2, Width, Height \div 2>>
      [] direction = "right_left" -> <<Width, Height \div 2, 0, Height \div 2>>
      [] direction = "top_bottom" -> <<Width \div 2, 0, Width \div 2, Height>>
      [] direction = "bottom_top" -> <<Width \div 2, Height, Width \div 2, 0>>
      [] direction = "diagonal" -> <<0, 0, Width, Height>>
      [] direction = "diagonal_reverse" -> <<Width, Height, 0, 0>>
      [] direction = "diagonal_bottom" -> <<0, Height, Width, 0>>
      [] direction = "diagonal_bottom_reverse" -> <<Width, 0, 0, Height>>
      [] OTHER -> <<Width \div 2, 0, Width \div 2, Height>>

\* Colour of the gradient at position num/den (0 <= num <= den) of the line
GradientColour(colors, num, den) ==
    IF Len(colors) > 1
    THEN LET pos == num * (Len(colors) - 1)
             index == pos \div den
             next == Min2(index + 1, Len(colors) - 1)
             rem == pos % den
             mix(i) == (colors[index + 1][i] * (den - rem)
                        + colors[next + 1][i] * rem) \div den
         IN  Px(mix(1), mix(2), mix(3), 255)
    ELSE Px(colors[1][1], colors[1][2], colors[1][3], 255)

\* angle % 360 brought into (-180, 180]
NormaliseAngle(angle) ==
    IF (angle % 360) > 180 THEN (angle % 360) - 360 ELSE angle % 360

\* a * sqrt(E) <= b for integers a, b and E > 0
SqrtLeq(a, b, E) ==
    IF a <= 0 THEN b >= 0 \/ a * a * E >= b * b
    ELSE b >= 0 /\ a * a * E <= b * b

\* floor(base / 2 + c / sqrt(E)) within lo .. hi
FloorOfSqrt(base, c, E, lo, hi) ==
    CHOOSE v \in lo .. hi :
        /\ SqrtLeq(2 * v - base, 2 * c, E)
        /\ ~SqrtLeq(2 * v + 2 - base, 2 * c, E)

\* Variant: a single colour is interpolated towards white
AngleColourPadded(colors, N, E) ==
    LET cols == IF Len(colors) = 1 THEN colors \o <<<<255, 255, 255>>>>
                ELSE colors
        n1 == Len(cols) - 1
        index == FloorOfSqrt(n1, n1 * N, E, 0, n1 - 1)
        next == Min2(index + 1, n1)
        mix(i) ==
            LET d == cols[next + 1][i] - cols[index + 1][i]
            IN  FloorOfSqrt(2 * cols[index + 1][i] + d * (n1 - 2 * index),
                            d * n1 * N, E, 0, 255)
    IN  IF SqrtLeq(1, 0 - 2 * N, E)
        THEN Px(cols[1][1], cols[1][2], cols[1][3], 255)
        ELSE IF SqrtLeq(1, 2 * N, E)
        THEN Px(cols[n1 + 1][1], cols[n1 + 1][2], cols[n1 + 1][3], 255)
        ELSE Px(mix(1), mix(2), mix(3), 255)

\* Colour of the gradient at t = 1/2 + N / sqrt(E) clamped to [0, 1]: the
\* line of an angle runs through the centre (width // 2, height // 2) and is
\* as long as the diagonal sqrt(E); N is the offset of the pixel from the
\* centre along the line
AngleColour(colors, N, E) ==
    LET n1 == Len(colors) - 1
        index == FloorOfSqrt(n1, n1 * N, E, 0, n1 - 1)
        next == Min2(index + 1, n1)
        mix(i) ==
            LET d == colors[next + 1][i] - colors[index + 1][i]
            IN  FloorOfSqrt(2 * colors[index + 1][i] + d * (n1 - 2 * index),
                            d * n1 * N, E, 0, 255)
    IN  IF n1 = 0 \/ SqrtLeq(1, 0 - 2 * N, E)
        THEN Px(colors[1][1], colors[1][2], colors[1][3], 255)
        ELSE IF SqrtLeq(1, 2 * N, E)
        THEN Px(colors[n1 + 1][1], colors[n1 + 1][2], colors[n1 + 1][3], 255)
        ELSE Px(mix(1), mix(2), mix(3), 255)

TypeError == [exc |-> "TypeError"]

\* The angle argument is a Python number, [num |-> degrees], or a string,
\* [str |-> text]
Num(n) == [num |-> n]
IsNum(v) == "num" \in DOMAIN v

\* math.degrees(math.atan2(dy, dx)) brought into [0, 360), for the vectors
\* of the eight principal directions, whose angles are whole
Atan2Degrees(dy, dx) ==
    CASE dy = 0 /\ dx >= 0 -> Num(0)
      [] dy = 0 /\ dx < 0 -> Num(180)
      [] dx = 0 /\ dy > 0 -> Num(90)
      [] dx = 0 /\ dy < 0 -> Num(270)
      [] dx = dy /\ dx > 0 -> Num(45)
      [] dx = dy /\ dx < 0 -> Num(225)
      [] dx = -dy /\ dx < 0 -> Num(135)
      [] dx = -dy /\ dx > 0 -> Num(315)

\* EffectsProcessor._create_gradient: every pixel is projected on the
\* gradient line and coloured at its position t clamped to [0, 1]. A named
\* direction fixes the line and overrides the angle; direction "None" is
\* Python's None, which like the empty string counts as no direction. An angle that is a string fails at angle % 360.
\* Without a direction the line of angle 0 is horizontal; for the other
\* angles the projection runs through slopes of the order of 1e16 in double
\* arithmetic, and only the one-colour gradient, whose colour does not depend
\* on the projection, is modelled.
_create_gradient(colors, angle, direction) ==
    LET cols == IF Len(colors) = 0
                THEN <<<<238, 40, 131>>, <<255, 220, 125>>>> ELSE colors
        line == GradientLine(direction)
        dx == line[3] - line[1]
        dy == line[4] - line[2]
        den == dx * dx + dy * dy
        num(p) == (p[1] - line[1]) * dx + (p[2] - line[2]) * dy
        clamp(n) == Max2(0, Min2(n, den))
        E == Width * Width + Height * Height
        N(p) == p[1] - Width \div 2
    IN  IF ~IsNum(angle) THEN TypeError
        ELSE IF direction \notin {"None", ""}
        THEN [p \in Pixels |->
                IF den > 0 THEN GradientColour(cols, clamp(num(p)), den)
                ELSE Transparent]
        ELSE [p \in Pixels |->
                CASE Len(cols) = 1 \/ NormaliseAngle(angle.num) = 0 ->
                        AngleColour(cols, N(p), E)]

\* The loop that turns a list of hex colours into RGB triples
RgbList(hexes) == [i \in 1 .. Len(hexes) |-> Rgb(hex_to_rgba(hexes[i], 255))]
RgbListRaises(hexes) ==
    \E i \in 1 .. Len(hexes) : IsError(hex_to_rgba(hexes[i], 255))

(* --------------------------- effect builders -------------------------- *)
\* Optional return value of a builder: an image or None
Some(im) == [some |-> TRUE, im |-> im]
None == [some |-> FALSE]

\* glow/inner-shadow opacity and intensity: values above 1 are percentages
Normalise(v) == IF v <= 100 THEN v ELSE v \div 100

\* The same in ten-thousandths, which holds v / 100 for every v in hundredths
NormaliseFine(v) == IF v <= 100 THEN v * 100 ELSE v

\* int(x * e) for e in hundred-millionths, in 32-bit steps
ScaleFine(x, e) ==
    (x * (e \div 10000) + (x * (e % 10000)) \div 10000) \div 10000

\* Python int() of a non-negative number of tenths, and round() (half to even)
IntOfTenths(t) == t \div 10
RoundOfTenths(t) ==
    LET q == t \div 10
        r == t % 10
    IN  IF r < 5 THEN q
        ELSE IF r > 5 THEN q + 1
        ELSE IF q % 2 = 0 THEN q ELSE q + 1

\* EffectsProcessor.apply_shadow
apply_shadow(img, style) ==
    IF "shadow" \notin DOMAIN style THEN None
    ELSE LET shadow == style["shadow"]
             opacity == Get(shadow, "opacity", 100)
             offset_x == Get(shadow, "offset_x", 5)
             offset_y == Get(shadow, "offset_y", 5)
             shadow_color ==
                 hex_to_rgba(Get(shadow, "color", Black), (opacity * 255) \div 100)
             shadow_canvas == PutAlpha(NewImage(shadow_color), AlphaOf(img))
             pasted == PasteMasked(NewImage(Transparent), shadow_canvas,
                                   AlphaOf(shadow_canvas), offset_x, offset_y)
         IN  IF opacity <= 0 THEN None
             ELSE IF IsError(shadow_color) THEN ValueError
             ELSE Some(PutAlpha(pasted, PointScale(AlphaOf(pasted), opacity)))

\* EffectsProcessor.apply_outline (solid colour)
apply_outline(img, style) ==
    IF "outline" \notin DOMAIN style THEN Some(img)
    ELSE LET outline == style["outline"]
             outline_width == Get(outline, "width", 10)
             outline_color == hex_to_rgba(Get(outline, "color", Black), 255)
             dilated == Dilate(AlphaOf(img), RoundOfTenths(outline_width))
             outline_layer == PutAlpha(NewImage(outline_color), dilated)
             outline_img == AlphaComposite(NewImage(Transparent), outline_layer)
         IN  IF IsError(outline_color) THEN ValueError
             ELSE IF outline_width <= 0 THEN Some(img)
             ELSE Some(AlphaComposite(outline_img, img))

\* The angle _apply_gradient_outline derives from the direction name, the
\* angle key and the gradient type
OutlineAngle(gradient) ==
    LET direction == Get(gradient, "direction", "left_right")
        svg_coords == Get(gradient, "svg_coords", << >>)
        dx == Get(svg_coords, "x2", 100) - Get(svg_coords, "x1", 0)
        dy == Get(svg_coords, "y2", 0) - Get(svg_coords, "y1", 0)
    IN  IF Get(gradient, "type", "None") = "radial" THEN [str |-> "radial"]
        ELSE CASE direction = "custom" /\ "svg_coords" \in DOMAIN gradient ->
                      IF dx # 0 \/ dy # 0 THEN Atan2Degrees(0 - dy, dx)
                      ELSE Num(0)
               [] direction = "left_right" -> Num(0)
               [] direction = "right_left" -> Num(180)
               [] direction = "top_bottom" -> Num(90)
               [] direction = "bottom_top" -> Num(270)
               [] direction = "diagonal" -> Num(45)
               [] direction = "diagonal_reverse" -> Num(225)
               [] direction = "diagonal_bottom" -> Num(315)
               [] direction = "diagonal_bottom_reverse" -> Num(135)
               [] OTHER -> Num(Get(gradient, "angle", 0))

\* EffectsProcessor._apply_gradient_outline
_apply_gradient_outline(img, style) ==
    LET outline_data == Get(style, "outline", << >>)
        width == Get(outline_data, "width", 0)
        opacity == Get(outline_data, "opacity", 100)
        gradient == IF "gradient" \in DOMAIN outline_data
                    THEN outline_data["gradient"] ELSE outline_data
        hex_colors == Get(gradient, "colors", <<Pink, Sand>>)
        direction == Get(gradient, "direction", "left_right")
        mask == AlphaOf(img)
        dilated_mask == Dilate(mask, IntOfTenths(width))
        outline_only_mask ==
            [p \in Pixels |->
                Max2(0, Min2(255, (dilated_mask[p] - mask[p]) % 256))]
        scaled == IF opacity < 100 THEN PointScale(outline_only_mask, opacity)
                  ELSE outline_only_mask
        gradient_img == _create_gradient(RgbList(hex_colors),
                                         OutlineAngle(gradient), direction)
    IN  IF RgbListRaises(hex_colors) THEN ValueError
        ELSE IF IsError(gradient_img) THEN gradient_img
        ELSE Some(PutAlpha(gradient_img, scaled))

\* EffectsProcessor.apply_glow (GaussianBlur with radius 0 returns a copy);
\* an exception inside its try block makes it return None
apply_glow(img, style) ==
    LET style_glow == IF "outer_glow" \in DOMAIN style THEN style["outer_glow"]
                      ELSE IF "glow" \in DOMAIN style THEN style["glow"]
                      ELSE << >>
        glow_opacity == NormaliseFine(Get(style_glow, "opacity", 8000))
        glow_intensity == NormaliseFine(Get(style_glow, "intensity", 10000))
        c == hex_to_rgba(Get(style_glow, "color", White), 255)
        blurred_alpha == AlphaOf(img)
        glow_mask ==
            [p \in Pixels |->
                Min2(ScaleFine(blurred_alpha[p], glow_opacity * glow_intensity),
                     255)]
    IN  IF DOMAIN style_glow = {} \/ Get(style_glow, "opacity", 0) <= 0 THEN None
        ELSE IF IsError(c) THEN None
        ELSE Some(PutAlpha(NewImage(Px(c.r, c.g, c.b, 0)), glow_mask))

\* Pairs (a, o) of alpha levels at which the float32 product
\* clip(a/255 - o/255) * (a/255) * 255 lies just below its exact integer value
Float32Short == {<<255, 200>>}

\* One pixel of the inner-shadow band: uint8(clip(src - offset, 0, 1) * src * 255)
InnerBand(a, o) ==
    LET exact == (Max2(a - o, 0) * a) \div 255
    IN  IF <<a, o>> \in Float32Short THEN exact - 1 ELSE exact

RECURSIVE SumBand(_, _)
SumBand(band, S) ==
    IF S = {} THEN 0
    ELSE LET p == CHOOSE q \in S : TRUE
         IN  band[p] + SumBand(band, S \ {p})

\* Variant: the arguments of Image.blend are swapped
ContrastSwapped(band, halves) ==
    LET n == Cardinality(Pixels)
        mean == (2 * SumBand(band, Pixels) + n) \div (2 * n)
        twice(x) == 2 * x + halves * (mean - x)
    IN  [p \in Pixels |->
            IF twice(band[p]) <= 0 THEN 0
            ELSE IF twice(band[p]) >= 510 THEN 255
            ELSE twice(band[p]) \div 2]

\* ImageEnhance.Contrast(band).enhance(factor), factor in halves (3 is 1.5):
\* Image.blend(degenerate, band, factor) around the rounded mean, clipped.
Contrast(band, halves) ==
    LET n == Cardinality(Pixels)
        mean == (2 * SumBand(band, Pixels) + n) \div (2 * n)
        twice(x) == 2 * mean + halves * (x - mean)
    IN  [p \in Pixels |->
            IF twice(band[p]) <= 0 THEN 0
            ELSE IF twice(band[p]) >= 510 THEN 255
            ELSE twice(band[p]) \div 2]

\* EffectsProcessor.apply_inner_shadow (the blur parameter is ignored)
apply_inner_shadow(img, style) ==
    LET style_inner_shadow == Get(style, "inner_shadow", << >>)
        shadow_opacity == Normalise(Get(style_inner_shadow, "opacity", 5000))
        shadow_offset_x == Get(style_inner_shadow, "offset_x", 2)
        shadow_offset_y == Get(style_inner_shadow, "offset_y", 2)
        c == hex_to_rgba(Get(style_inner_shadow, "color", Black), 255)
        source_alpha == AlphaOf(img)
        offset_alpha == PasteBand([p \in Pixels |-> 0], source_alpha,
                                  0 - shadow_offset_x, 0 - shadow_offset_y)
        inner_shadow_mask ==
            [p \in Pixels |-> InnerBand(source_alpha[p], offset_alpha[p])]
        shadow_mask_with_opacity ==
            IF shadow_opacity > 0
            THEN PointScale(Contrast(inner_shadow_mask, 3), shadow_opacity)
            ELSE inner_shadow_mask
    IN  IF DOMAIN style_inner_shadow = {}
           \/ Get(style_inner_shadow, "opacity", 0) <= 0 THEN None
        ELSE IF IsError(c) THEN None
        ELSE Some(PutAlpha(NewImage(Px(c.r, c.g, c.b, 0)),
                           shadow_mask_with_opacity))

\* A Python string is the record [str |-> digits]; anything else is a dict.
\* The string fills of the model are hex colours.
IsDict(v) == "str" \notin DOMAIN v
Str(hex) == [str |-> hex]

\* EffectsProcessor.apply_fill; an exception inside its try block makes it
\* return None
apply_fill(img, style) ==
    LET text_mask == AlphaOf(img)
        binary_mask == BinaryMaskOf(text_mask)
        fill == style["fill"]
        fill_type == IF IsDict(fill) THEN Get(fill, "type", "None") ELSE "None"
        \* gradient branch
        colors == Get(fill, "colors", <<White, <<0, 0, 6, 6, 15, 15>>>>)
        rgb_colors == IF Len(colors) = 0
                      THEN <<<<255, 255, 255>>, <<0, 102, 255>>>>
                      ELSE RgbList(colors)
        gradient_img == _create_gradient(rgb_colors, Num(Get(fill, "angle", 90)),
                                         Get(fill, "direction", "None"))
        gradient_masked_rgba ==
            PasteMasked(NewImage(Transparent), gradient_img, text_mask, 0, 0)
        gradient_opacity == Get(fill, "opacity", 100)
        \* solid branch
        color_value == IF IsDict(fill) THEN Get(fill, "color", DefaultFillHex)
                       ELSE fill["str"]
        fill_color == hex_to_rgba(color_value, 255)
        fill_img == NewImage(Px(fill_color.r, fill_color.g, fill_color.b, 255))
        fill_rgba == PasteBinary(NewImage(Transparent), fill_img, binary_mask)
        opacity == IF IsDict(fill) /\ "opacity" \in DOMAIN fill
                   THEN fill["opacity"] ELSE 100
        \* no fill key
        white_img == NewImage(Px(255, 255, 255, 255))
    IN  IF "fill" \in DOMAIN style
        THEN IF fill_type \in {"gradient", "linear", "radial"}
             THEN IF Len(colors) > 0 /\ RgbListRaises(colors) THEN None
                  ELSE IF IsError(gradient_img) THEN None
                  ELSE IF gradient_opacity < 100
                  THEN Some(PutAlpha(gradient_masked_rgba,
                            PointScale(AlphaOf(gradient_masked_rgba),
                                       gradient_opacity)))
                  ELSE Some(gradient_masked_rgba)
             ELSE IF IsError(fill_color) THEN None
             ELSE IF opacity < 100
                  THEN Some(PutAlpha(fill_rgba,
                                     PointScale(AlphaOf(fill_rgba), opacity)))
                  ELSE Some(fill_rgba)
        ELSE Some(PasteBinary(NewImage(Transparent), white_img, binary_mask))

(* ----------------------------- compositor ----------------------------- *)
\* Variant: the outline guard does not look at the width
EffectsOrderNoWidthGuard(style) ==
    LET opacity(k) == Get(Get(style, k, << >>), "opacity", 0)
    IN  (IF "shadow" \in DOMAIN style /\ opacity("shadow") > 0
         THEN <<"shadow">> ELSE << >>)
        \o (IF "glow" \in DOMAIN style /\ opacity("glow") > 0
            THEN <<"glow">> ELSE << >>)
        \o <<"fill">>
        \o (IF "outline" \in DOMAIN style /\ opacity("outline") > 0
            THEN <<"outline">> ELSE << >>)
        \o (IF "inner_shadow" \in DOMAIN style /\ opacity("inner_shadow") > 0
            THEN <<"inner_shadow">> ELSE << >>)

\* The guards of apply_all_effects that fill effects_order
EffectsOrder(style) ==
    LET opacity(k) == Get(Get(style, k, << >>), "opacity", 0)
        width == Get(Get(style, "outline", << >>), "width", 0)
    IN  (IF "shadow" \in DOMAIN style /\ opacity("shadow") > 0
         THEN <<"shadow">> ELSE << >>)
        \o (IF "glow" \in DOMAIN style /\ opacity("glow") > 0
            THEN <<"glow">> ELSE << >>)
        \o <<"fill">>
        \o (IF "outline" \in DOMAIN style /\ width > 0 /\ opacity("outline") > 0
            THEN <<"outline">> ELSE << >>)
        \o (IF "inner_shadow" \in DOMAIN style /\ opacity("inner_shadow") > 0
            THEN <<"inner_shadow">> ELSE << >>)

\* outline_base: the text pasted through its own alpha on a transparent image
OutlineBase(img) ==
    PasteMasked(NewImage(Transparent), img, AlphaOf(img), 0, 0)

\* The layer a branch of the loop obtains from its builder
BuildLayer(effect_name, img, style) ==
    CASE effect_name = "shadow" -> apply_shadow(img, style)
      [] effect_name = "glow" -> apply_glow(img, style)
      [] effect_name = "fill" -> apply_fill(img, style)
      [] effect_name = "outline" ->
            IF "gradient" \in DOMAIN Get(style, "outline", << >>)
            THEN _apply_gradient_outline(OutlineBase(img), style)
            ELSE apply_outline(OutlineBase(img), style)
      [] effect_name = "inner_shadow" -> apply_inner_shadow(img, style)

\* inner_alpha.point(lambda x: min(x, 200)) before the inner shadow is blended
InnerAlphaCap == 200
CapAlpha(layer) ==
    [p \in Pixels |-> [layer[p] EXCEPT !.a = Min2(layer[p].a, InnerAlphaCap)]]

\* Variant: every layer is blended as its builder returned it
BlendedUncapped(effect_name, layer) == layer

\* The image a branch of the loop blends onto the running result
Blended(effect_name, layer) ==
    IF effect_name = "inner_shadow" THEN CapAlpha(layer) ELSE layer

\* What a branch of the loop does with the value its builder returned
Composite(acc, effect_name, built) ==
    IF IsError(built) THEN [acc EXCEPT !.raised = built.exc]
    ELSE IF built.some
    THEN [result |-> AlphaComposite(acc.result,
                                    Blended(effect_name, built.im)),
          layers |-> (effect_name :> built.im) @@ acc.layers,
          composited |-> Append(acc.composited, effect_name),
          raised |-> acc.raised]
    ELSE acc

\* One iteration of the loop over effects_order
LoopStep(acc, effect_name, img, style) ==
    Composite(acc, effect_name, BuildLayer(effect_name, img, style))

RECURSIVE RunLoop(_, _, _, _)
RunLoop(acc, order, img, style) ==
    IF order = << >> \/ acc.raised # "none" THEN acc
    ELSE RunLoop(LoopStep(acc, Head(order), img, style), Tail(order), img, style)

\* EffectsProcessor.apply_all_effects as a function of its arguments
apply_all_effects(img, style) ==
    RunLoop([result |-> NewImage(Transparent), layers |-> << >>,
             composited |-> << >>, raised |-> "none"],
            EffectsOrder(style), img, style)

(* ------------------------------- inputs ------------------------------- *)
\* Alpha masks the text rasteriser can hand over: at most MaxInk inked pixels
Masks ==
    {m \in [Pixels -> AlphaLevels] : Cardinality({p \in Pixels : m[p] # 0}) <= MaxInk}

\* TextRenderer.create_base_text_image: the glyph coverage is drawn with the
\* white default text colour on a transparent RGBA image.
create_base_text_image(mask) ==
    [p \in Pixels |->
        Px(BLEND(mask[p], 0, 255), BLEND(mask[p], 0, 255),
           BLEND(mask[p], 0, 255), BLEND(mask[p], 0, 255))]

Absent == << >>

ShadowOn ==
    "shadow" :> [color |-> Black, opacity |-> 50, offset_x |-> 1,
                 offset_y |-> 0, blur |-> 0]
ShadowOpts ==
    {Absent, ShadowOn,
     "shadow" :> [color |-> Black, opacity |-> 100, offset_x |-> -1,
                  offset_y |-> 1, blur |-> 0],
     "shadow" :> [color |-> Black, opacity |-> 0, offset_x |-> 1,
                  offset_y |-> 0, blur |-> 0]}

GlowOn ==
    "glow" :> [color |-> Green, opacity |-> 50, radius |-> 0, intensity |-> 100]
GlowOpts ==
    {Absent, GlowOn,
     "glow" :> [color |-> Green, opacity |-> 0, radius |-> 0, intensity |-> 100]}

FillSet ==
    {"fill" :> Str(Red),
     "fill" :> [type |-> "solid", color |-> Red, opacity |-> 100],
     "fill" :> [type |-> "none"],
     "fill" :> [type |-> "linear", direction |-> "top_bottom",
                colors |-> <<Pink, Sand>>]}
FillOpts == {Absent} \cup FillSet

OutlineOn ==
    {"outline" :> [width |-> 10, opacity |-> 100, color |-> Blue],
     "outline" :> [width |-> 10, opacity |-> 100,
                   gradient |-> [type |-> "linear", direction |-> "left_right",
                                 colors |-> <<Pink, Sand>>]]}
OutlineOpts ==
    {Absent} \cup OutlineOn
    \cup {"outline" :> [width |-> 0, opacity |-> 100, color |-> Blue],
          "outline" :> [width |-> 10, opacity |-> 0, color |-> Blue]}

InnerShadowOn ==
    "inner_shadow" :> [color |-> Yellow, opacity |-> 100, offset_x |-> 1,
                       offset_y |-> 0, blur |-> 0]
InnerShadowOpts ==
    {Absent, InnerShadowOn,
     "inner_shadow" :> [color |-> Yellow, opacity |-> 50, offset_x |-> 0,
                        offset_y |-> -1, blur |-> 0],
     "inner_shadow" :> [color |-> Yellow, opacity |-> 0, offset_x |-> 1,
                        offset_y |-> 0, blur |-> 0]}

\* Styles with all five effects active
FullStyles ==
    {ShadowOn @@ GlowOn @@ f @@ o @@ InnerShadowOn : f \in FillSet, o \in OutlineOn}

\* Styles whose colour strings are malformed
MalformedStyles ==
    {"shadow" :> [color |-> NotHex6, opacity |-> 50, offset_x |-> 1,
                  offset_y |-> 0, blur |-> 0],
     "shadow" :> [color |-> ShortHex, opacity |-> 50, offset_x |-> 1,
                  offset_y |-> 0, blur |-> 0],
     "outline" :> [width |-> 10, opacity |-> 100, color |-> NotHex8],
     "outline" :> [width |-> 10, opacity |-> 100,
                   gradient |-> [type |-> "linear", direction |-> "left_right",
                                 colors |-> <<NotHex6, Sand>>]],
     "glow" :> [color |-> NotHex6, opacity |-> 50, radius |-> 0,
                intensity |-> 100],
     "inner_shadow" :> [color |-> NotHex6, opacity |-> 100, offset_x |-> 1,
                        offset_y |-> 0, blur |-> 0],
     "fill" :> Str(NotHex6),
     "fill" :> Str(ShortHex),
     "fill" :> [type |-> "solid", color |-> NotHex8, opacity |-> 100],
     "fill" :> [type |-> "linear", direction |-> "top_bottom",
                colors |-> <<Pink, NotHex6>>]}

\* Styles whose colours are eight-digit strings, with and without opacity
EightDigitStyles ==
    {"fill" :> Str(HalfRed),
     "fill" :> [color |-> HalfRed],
     "fill" :> [type |-> "solid", color |-> HalfRed, opacity |-> 50],
     "shadow" :> [color |-> HalfBlack, offset_x |-> 1, offset_y |-> 0,
                  blur |-> 0],
     "shadow" :> [color |-> HalfBlack, opacity |-> 100, offset_x |-> 1,
                  offset_y |-> 0, blur |-> 0]}

\* Styles with gradients of an angle, of one colour and of type radial
SingleAngles == {45, 90, 180, 270}
GradientStyles ==
    {"fill" :> [type |-> "gradient", colors |-> <<Pink, Sand>>, angle |-> 0],
     "fill" :> [type |-> "gradient", colors |-> <<Red, Blue>>,
                direction |-> "left_right"],
     "fill" :> [type |-> "radial", colors |-> <<Pink, Sand>>,
                direction |-> "left_right"],
     "fill" :> [type |-> "radial", colors |-> <<Red, Blue>>, angle |-> 0],
     "outline" :> [width |-> 10, opacity |-> 100,
                   gradient |-> [type |-> "linear",
                                 direction |-> "diagonal_bottom",
                                 colors |-> <<Sand>>]],
     "outline" :> [width |-> 10, opacity |-> 100,
                   gradient |-> [type |-> "radial", colors |-> <<Pink, Sand>>]]}
    \cup {"fill" :> [type |-> "gradient", colors |-> <<Pink>>, angle |-> a] :
            a \in SingleAngles}
    \cup {"fill" :> [type |-> "gradient", colors |-> <<Pink>>, direction |-> d] :
            d \in {"left_right", "bottom_top", "diagonal"}}

\* Styles whose outline has an opacity strictly between 0 and 1
TranslucentOutlineStyles ==
    {"outline" :> [width |-> 10, opacity |-> 50, color |-> Blue],
     "outline" :> [width |-> 10, opacity |-> 50,
                   gradient |-> [type |-> "linear", direction |-> "left_right",
                                 colors |-> <<Pink, Sand>>]]}

\* Glow styles on both sides of a normalised intensity of 0.6
GlowIntensityStyles ==
    {"glow" :> [color |-> Green, opacity |-> 100, radius |-> 0,
                intensity |-> 60],
     "glow" :> [color |-> Green, opacity |-> 50, radius |-> 0,
                intensity |-> 80]}

\* Outline widths of 0.6, 1.5 and 2 pixels, for both outline builders
OutlineWidths == {6, 15, 20}
WideOutlineStyles ==
    {"outline" :> [width |-> w, opacity |-> 100, color |-> Blue] :
        w \in OutlineWidths}
    \cup {"outline" :> [width |-> w, opacity |-> 100,
                        gradient |-> [type |-> "linear",
                                      direction |-> "left_right",
                                      colors |-> <<Pink, Sand>>]] :
            w \in OutlineWidths}

\* Styles whose effect has no opacity field
NoOpacityStyles ==
    {"shadow" :> [color |-> Black, offset_x |-> 1, offset_y |-> 0, blur |-> 0],
     "glow" :> [color |-> Green, radius |-> 0, intensity |-> 100],
     "outline" :> [width |-> 10, color |-> Blue],
     "outline" :> [width |-> 10,
                   gradient |-> [type |-> "linear", direction |-> "left_right",
                                 colors |-> <<Pink, Sand>>]],
     "inner_shadow" :> [color |-> Yellow, offset_x |-> 1, offset_y |-> 0,
                        blur |-> 0]}

\* Glows as SVGStyleConverter returns them, with the intensity 1.0 of a
\* glow and the 1.5 of a pink one, and glows with an intensity in percent
GlowIntensities == {50, 100, 150, 5000, 10000}
ConvertedGlow(i) ==
    "glow" :> [color |-> Magenta, radius |-> 0, intensity |-> i, opacity |-> 80]
ConvertedGlowStyles == {ConvertedGlow(i) : i \in GlowIntensities}

\* Gradient outlines as SVGStyleConverter returns them for a gradient vector
\* that is none of the eight named ones: direction 'custom', the angle the
\* parser computed, and the coordinates in percent
CustomCoords ==
    {[x1 |-> 0, y1 |-> 0, x2 |-> 100, y2 |-> 0],
     [x1 |-> 0, y1 |-> 0, x2 |-> 0, y2 |-> 100],
     [x1 |-> 100, y1 |-> 100, x2 |-> 0, y2 |-> 100]}
CustomOutline(c) ==
    "outline" :> [width |-> 10, opacity |-> 100,
                  gradient |-> [type |-> "linear", colors |-> <<Pink, Sand>>,
                                direction |-> "custom",
                                angle |-> Atan2Degrees(c.y2 - c.y1,
                                                       c.x2 - c.x1).num,
                                intensity |-> 100, svg_coords |-> c]]
CustomOutlineStyles == {CustomOutline(c) : c \in CustomCoords}

\* Styles with at most MaxKeys effect keys, and the styles with all effects
Styles ==
    {st \in {s @@ g @@ f @@ o @@ i :
                s \in ShadowOpts, g \in GlowOpts, f \in FillOpts,
                o \in OutlineOpts, i \in InnerShadowOpts} :
        Cardinality(DOMAIN st) <= MaxKeys}
    \cup FullStyles \cup MalformedStyles \cup EightDigitStyles
    \cup GradientStyles \cup TranslucentOutlineStyles
    \cup GlowIntensityStyles \cup WideOutlineStyles \cup NoOpacityStyles
    \cup CustomOutlineStyles \cup ConvertedGlowStyles

(* ---------------------------- state machine --------------------------- *)
VARIABLES base_img, style, pc, effects_order, idx, result, layers,
          composited, ret, caller, outcome, debug_output, history,
          pil_image, text_opacity, output,
          svg_pc, svg_style, svg_doc, svg_data, svg_back,
          area_pc, image_width, image_height, margin, style_data, safe_area,
          fit_pc, start_size, max_size, fitting, low, high, optimal_size

vars == <<base_img, style, pc, effects_order, idx, result, layers,
          composited, ret, caller, outcome, debug_output, history,
          pil_image, text_opacity, output,
          svg_pc, svg_style, svg_doc, svg_data, svg_back,
          area_pc, image_width, image_height, margin, style_data, safe_area,
          fit_pc, start_size, max_size, fitting, low, high, optimal_size>>

\* The EffectsProcessor object: its only field, set by __init__, and the
\* values its earlier calls of apply_all_effects returned
processor == <<debug_output, history>>

\* The node around the call: its input image, its global text opacity
\* (hundredths) and the image it outputs
node == <<pil_image, text_opacity, output>>

\* A style on its way through SVGGenerator, SVGParser and SVGStyleConverter:
\* the style written, the document, the parsed data and the style read back
exchange == <<svg_pc, svg_style, svg_doc, svg_data, svg_back>>

\* ArtisticTextNode laying the text out: the image size, the four margins
\* (hundredths), the style loaded and the safe area (left, top, right, bottom)
layout == <<area_pc, image_width, image_height, margin, style_data, safe_area>>

\* One call of TextRenderer.find_optimal_font_size: its arguments, the sizes
\* at which the text measured fits, and its local variables
search == <<fit_pc, start_size, max_size, fitting, low, high, optimal_size>>

render == <<base_img, style, pc, effects_order, idx, result, layers,
            composited, ret, caller, outcome>>

NoReturn == [kind |-> "none"]

\* No node is laying text out, and no font size is searched for
NoLayout ==
    /\ area_pc = "none"
    /\ image_width = 0
    /\ image_height = 0
    /\ margin = << >>
    /\ style_data = << >>
    /\ safe_area = << >>

NoSearch ==
    /\ fit_pc = "none"
    /\ start_size = 0
    /\ max_size = 0
    /\ fitting = {}
    /\ low = 0
    /\ high = 0
    /\ optimal_size = 0

InitCall ==
    /\ pc = "call"
    /\ effects_order = << >>
    /\ idx = 0
    /\ result = NewImage(Transparent)
    /\ layers = << >>
    /\ composited = << >>
    /\ ret = NoReturn
    /\ outcome = "pending"
    /\ history = << >>
    /\ svg_pc = "none"
    /\ svg_style = << >>
    /\ svg_doc = << >>
    /\ svg_data = << >>
    /\ svg_back = << >>
    /\ NoLayout
    /\ NoSearch

\* apply_all_effects is called without a node around it
NoNode ==
    /\ pil_image = NewImage(Transparent)
    /\ text_opacity = 100
    /\ output = NoReturn

\* A direct call of EffectsProcessor().apply_all_effects(base_img, style)
Init ==
    /\ base_img \in {create_base_text_image(m) : m \in Masks}
    /\ style \in Styles
    /\ caller = "direct"
    /\ debug_output = FALSE
    /\ NoNode
    /\ InitCall

\* Variant: the canvas of the previous call is not replaced
BeginKeepingCanvas ==
    /\ pc = "call"
    /\ pc' = "loop"
    /\ effects_order' = EffectsOrder(style)
    /\ idx' = 1
    /\ result' = result
    /\ layers' = << >>
    /\ composited' = << >>
    /\ UNCHANGED <<base_img, style, ret, caller, outcome, processor, node,
                   exchange, layout, search>>

\* apply_all_effects up to the loop: transparent canvas, effects_order
Begin ==
    /\ pc = "call"
    /\ pc' = "loop"
    /\ effects_order' = EffectsOrder(style)
    /\ idx' = 1
    /\ result' = NewImage(Transparent)
    /\ layers' = << >>
    /\ composited' = << >>
    /\ UNCHANGED <<base_img, style, ret, caller, outcome, processor, node,
                   exchange, layout, search>>

\* The loop is at the branch of effect_name
AtBranch(effect_name) ==
    /\ pc = "loop"
    /\ idx <= Len(effects_order)
    /\ effects_order[idx] = effect_name

\* One iteration of the loop: build the layer and blend it onto the result;
\* an exception of the builder leaves apply_all_effects and its caller
Advance(next) ==
    /\ result' = next.result
    /\ layers' = next.layers
    /\ composited' = next.composited
    /\ pc' = IF next.raised # "none" THEN "raised" ELSE pc
    /\ outcome' = IF next.raised # "none" THEN next.raised ELSE outcome
    /\ idx' = IF next.raised # "none" THEN idx ELSE idx + 1

Iterate(effect_name) ==
    /\ Advance(LoopStep([result |-> result, layers |-> layers,
                         composited |-> composited, raised |-> "none"],
                        effect_name, base_img, style))
    /\ UNCHANGED <<base_img, style, effects_order, ret, caller, processor,
                   node, exchange, layout, search>>

CompositeShadow ==
    /\ AtBranch("shadow")
    /\ Iterate("shadow")

CompositeGlow ==
    /\ AtBranch("glow")
    /\ Iterate("glow")

CompositeFill ==
    /\ AtBranch("fill")
    /\ Iterate("fill")

CompositeOutline ==
    /\ AtBranch("outline")
    /\ Iterate("outline")

CompositeInnerShadow ==
    /\ AtBranch("inner_shadow")
    /\ Iterate("inner_shadow")

\* return result, layers
Return ==
    /\ pc = "loop"
    /\ idx > Len(effects_order)
    /\ pc' = "returned"
    /\ ret' = [kind |-> "tuple", items |-> <<result, layers>>]
    /\ UNCHANGED <<base_img, style, effects_order, idx, result, layers,
                   composited, caller, outcome, processor, node,
                   exchange, layout, search>>

Next ==
    \/ Begin
    \/ CompositeShadow
    \/ CompositeGlow
    \/ CompositeFill
    \/ CompositeOutline
    \/ CompositeInnerShadow
    \/ Return

Spec == Init /\ [][Next]_vars

(* --------------------------- repeated calls --------------------------- *)
\* Calls of apply_all_effects one EffectsProcessor serves in a row
MaxCalls == 2

\* Masks of at most one inked pixel, of any alpha level
DotMasks == {m \in Masks : Cardinality({p \in Pixels : m[p] # 0}) <= 1}

\* The processor is used for a run of calls with the same arguments
InitRepeat ==
    /\ base_img \in {create_base_text_image(m) : m \in DotMasks}
    /\ style \in FullStyles
    /\ caller = "direct"
    /\ debug_output \in BOOLEAN
    /\ NoNode
    /\ InitCall

\* The caller keeps the returned value and calls apply_all_effects again,
\* on the same processor with the same base image and style
CallAgain ==
    /\ pc = "returned"
    /\ Len(history) + 1 < MaxCalls
    /\ history' = Append(history, ret)
    /\ pc' = "call"
    /\ ret' = NoReturn
    /\ UNCHANGED <<base_img, style, effects_order, idx, result, layers,
                   composited, caller, outcome, debug_output, node,
                   exchange, layout, search>>

NextRepeat ==
    \/ Next
    \/ CallAgain

SpecRepeat == InitRepeat /\ [][NextRepeat]_vars

(* ------------------------------- callers ------------------------------ *)
\* PIPArtisticWordsFusion._build_style_dict
FusionBuildStyleDict(params) ==
    ("_effects_order" :>
        ((IF Get(params, "shadow_enabled", TRUE) THEN <<"shadow">> ELSE << >>)
         \o (IF Get(params, "outline_enabled", TRUE) THEN <<"outline">> ELSE << >>)
         \o (IF Get(params, "enable_fill", TRUE) THEN <<"fill">> ELSE << >>)
         \o (IF Get(params, "inner_shadow_enabled", FALSE)
             THEN <<"inner_shadow">> ELSE << >>)))
    @@ (IF Get(params, "shadow_enabled", TRUE)
        THEN "shadow" :> [color |-> Get(params, "shadow_color", Black),
                          opacity |-> Get(params, "shadow_opacity", 60),
                          offset_x |-> Get(params, "shadow_offset_x", 5),
                          offset_y |-> Get(params, "shadow_offset_y", 5),
                          blur |-> Get(params, "shadow_blur", 10)]
        ELSE Absent)
    @@ (IF Get(params, "outline_enabled", TRUE)
        THEN "outline" :> [width |-> Get(params, "outline_width", 50),
                           opacity |-> Get(params, "outline_opacity", 100),
                           color |-> Get(params, "outline_color", Black)]
        ELSE Absent)
    @@ (IF Get(params, "enable_fill", TRUE)
        THEN "fill" :> Str(Get(params, "fill_color", DefaultFillHex))
        ELSE "fill" :> [type |-> "none"])
    @@ (IF Get(params, "inner_shadow_enabled", FALSE)
        THEN "inner_shadow" :>
                [color |-> Get(params, "inner_shadow_color", White),
                 opacity |-> Get(params, "inner_shadow_opacity", 70),
                 offset_x |-> Get(params, "inner_shadow_offset_x", 2),
                 offset_y |-> Get(params, "inner_shadow_offset_y", 2),
                 blur |-> Get(params, "inner_shadow_blur", 2)]
        ELSE Absent)

\* PIPSVGRecorder._build_style_dict
RecorderBuildStyleDict(params) ==
    (IF Get(params, "enable_fill", TRUE)
     THEN IF Get(params, "fill_type", "gradient") = "solid"
          THEN "fill" :> [type |-> "solid",
                          color |-> Get(params, "fill_color", DefaultFillHex)]
          ELSE IF Get(params, "fill_type", "gradient") = "gradient"
          THEN "fill" :> [type |-> Get(params, "fill_gradient_type", "linear"),
                          direction |->
                              Get(params, "fill_gradient_direction", "top_bottom"),
                          colors |-> <<Get(params, "fill_gradient_color1", Pink),
                                       Get(params, "fill_gradient_color2", Sand)>>]
          ELSE Absent
     ELSE "fill" :> [type |-> "none"])
    @@ (IF Get(params, "outline_enabled", TRUE)
        THEN IF Get(params, "outline_type", "gradient") = "solid"
             THEN "outline" :> [width |-> Get(params, "outline_width", 50),
                                opacity |-> Get(params, "outline_opacity", 100),
                                color |-> Get(params, "outline_color", Black)]
             ELSE "outline" :>
                    [width |-> Get(params, "outline_width", 50),
                     opacity |-> Get(params, "outline_opacity", 100),
                     gradient |->
                        [type |-> Get(params, "outline_gradient_type", "linear"),
                         direction |->
                            Get(params, "outline_gradient_direction", "left_right"),
                         colors |-> <<Get(params, "outline_gradient_color1", Pink),
                                      Get(params, "outline_gradient_color2", Sand)>>]]
        ELSE Absent)
    @@ (IF Get(params, "shadow_enabled", TRUE)
        THEN "shadow" :> [color |-> Get(params, "shadow_color", Black),
                          opacity |-> Get(params, "shadow_opacity", 60),
                          offset_x |-> Get(params, "shadow_offset_x", 5),
                          offset_y |-> Get(params, "shadow_offset_y", 5),
                          blur |-> Get(params, "shadow_blur", 10)]
        ELSE Absent)
    @@ (IF Get(params, "inner_shadow_enabled", FALSE)
        THEN "inner_shadow" :>
                [color |-> Get(params, "inner_shadow_color", <<9, 9, 0, 0, 15, 15>>),
                 opacity |-> Get(params, "inner_shadow_opacity", 70),
                 offset_x |-> Get(params, "inner_shadow_offset_x", 2),
                 offset_y |-> Get(params, "inner_shadow_offset_y", 2),
                 blur |-> Get(params, "inner_shadow_blur", 2)]
        ELSE Absent)
    @@ (IF Get(params, "glow_enabled", FALSE)
        THEN "glow" :> [color |-> Get(params, "glow_color", Green),
                        opacity |-> Get(params, "glow_opacity", 80),
                        radius |-> Get(params, "glow_blur", 10),
                        intensity |-> Get(params, "glow_intensity", 100)]
        ELSE Absent)

\* The values the node UI passes for the parameters that are not switches
UiValues ==
    [fill_color |-> Red,
     outline_width |-> 10, outline_opacity |-> 100, outline_color |-> Blue,
     shadow_color |-> Black, shadow_opacity |-> 50, shadow_offset_x |-> 1,
     shadow_offset_y |-> 0, shadow_blur |-> 0,
     inner_shadow_color |-> Yellow, inner_shadow_opacity |-> 100,
     inner_shadow_offset_x |-> 1, inner_shadow_offset_y |-> 0,
     inner_shadow_blur |-> 0,
     glow_color |-> Green, glow_opacity |-> 50, glow_blur |-> 0,
     glow_intensity |-> 100]

FusionParams ==
    {UiValues @@ sw :
        sw \in [{"enable_fill", "outline_enabled", "shadow_enabled",
                 "inner_shadow_enabled"} -> BOOLEAN]}

RecorderParams ==
    {UiValues @@ sw @@ ft @@ ot :
        sw \in {[enable_fill |-> ef, outline_enabled |-> oe, shadow_enabled |-> fx[1],
                 inner_shadow_enabled |-> fx[2], glow_enabled |-> fx[3]] :
                    ef \in BOOLEAN, oe \in BOOLEAN,
                    fx \in {<<FALSE, TRUE, FALSE>>, <<TRUE, FALSE, TRUE>>}},
        ft \in {[fill_type |-> t] : t \in {"solid", "gradient", "none"}},
        ot \in {[outline_type |-> t] : t \in {"solid", "gradient"}}}

\* Styles the style manager hands to the nodes and scripts that load a style
LoadedStyles ==
    {st \in FullStyles : IsDict(st["fill"]) /\ Get(st["fill"], "type", "") # "none"
                         /\ ("gradient" \in DOMAIN st["outline"]
                              <=> st["fill"]["type"] = "linear")}

Callers ==
    {"ArtisticTextNode", "TextPreviewNode", "PIPArtisticWordsFusion",
     "PIPSVGRecorder", "test_style_rendering", "visualize_effect_layers"}

StylesOf(c) ==
    CASE c = "PIPArtisticWordsFusion" ->
            {FusionBuildStyleDict(prm) : prm \in FusionParams}
      [] c = "PIPSVGRecorder" ->
            {RecorderBuildStyleDict(prm) : prm \in RecorderParams}
      [] OTHER -> LoadedStyles

\* The nodes that draw the text over an input image with a global opacity
ImageNodes == {"ArtisticTextNode", "PIPArtisticWordsFusion"}

\* Input images: opaque (an RGB tensor) and fully transparent (RGBA tensor)
Grey == Px(128, 128, 128, 255)

InputImages == {NewImage(Grey), NewImage(Transparent)}

\* Values of the global text opacity, in hundredths
TextOpacities == {50, 100}

\* ImageChops.subtract and ImageChops.add on bands, clipped to 0 .. 255
ChopsSubtract(a, b) == [p \in Pixels |-> Max2(a[p] - b[p], 0)]

ChopsAdd(a, b) == [p \in Pixels |-> Min2(a[p] + b[p], 255)]

\* PIPArtisticWordsFusion.process after the call: the styled text is
\* composited over the input, then the alpha the text added is scaled
FusionOutput(pil, styled, opacity) ==
    LET result_image == AlphaComposite(pil, styled)
        original_alpha == AlphaOf(pil)
        text_mask == ChopsSubtract(AlphaOf(result_image), original_alpha)
        adjusted_mask == PointScale(text_mask, opacity)
        final_alpha == ChopsAdd(original_alpha, adjusted_mask)
    IN  IF opacity < 100 THEN PutAlpha(result_image, final_alpha)
                         ELSE result_image

\* A node or script renders the text and calls apply_all_effects
InitNodes ==
    /\ base_img \in {create_base_text_image(m) : m \in Masks}
    /\ caller \in Callers
    /\ style \in StylesOf(caller)
    /\ debug_output = FALSE
    /\ pil_image \in IF caller \in ImageNodes THEN InputImages
                                             ELSE {NewImage(Transparent)}
    /\ text_opacity \in IF caller \in ImageNodes THEN TextOpacities ELSE {100}
    /\ output = NoReturn
    /\ InitCall

\* What the caller does first with the value apply_all_effects returned
IsImage(v) == v.kind = "image"

ReturnedTo(c) == pc = "returned" /\ caller = c

Finish(completes, out) ==
    /\ pc' = "done"
    /\ outcome' = IF completes THEN "completed" ELSE "AttributeError"
    /\ output' = IF completes THEN out ELSE output
    /\ UNCHANGED <<base_img, style, effects_order, idx, result, layers,
                   composited, ret, caller, processor, pil_image,
                   text_opacity, exchange, layout, search>>

\* ArtisticTextNode.generate_artistic_text: styled_text_image.split()
ArtisticTextNodeSplit ==
    /\ ReturnedTo("ArtisticTextNode")
    /\ Finish(IsImage(ret), output)

\* TextPreviewNode.generate_text_preview: pil_to_tensor unpacks a tuple
TextPreviewNodeToTensor ==
    /\ ReturnedTo("TextPreviewNode")
    /\ Finish(IsImage(ret) \/ (ret.kind = "tuple" /\ Len(ret.items) > 0),
              output)

\* PIPArtisticWordsFusion.process: takes element 0 of a tuple
FusionComposite ==
    /\ ReturnedTo("PIPArtisticWordsFusion")
    /\ Finish(IsImage(ret) \/ (ret.kind = "tuple" /\ Len(ret.items) >= 1),
              FusionOutput(pil_image, ret.items[1], text_opacity))

\* PIPSVGRecorder._generate_preview: takes element 0 of a tuple
RecorderComposite ==
    /\ ReturnedTo("PIPSVGRecorder")
    /\ Finish(IsImage(ret) \/ (ret.kind = "tuple" /\ Len(ret.items) >= 1),
              output)

\* test_style_rendering: img_all.save(...)
TestRendererSave ==
    /\ ReturnedTo("test_style_rendering")
    /\ Finish(IsImage(ret), output)

\* visualize_effect_layers: all_img.save(...)
VisualizeSave ==
    /\ ReturnedTo("visualize_effect_layers")
    /\ Finish(IsImage(ret), output)

NextNodes ==
    \/ Next
    \/ ArtisticTextNodeSplit
    \/ TextPreviewNodeToTensor
    \/ FusionComposite
    \/ RecorderComposite
    \/ TestRendererSave
    \/ VisualizeSave

SpecNodes == InitNodes /\ [][NextNodes]_vars

(* ------------------------- styles through SVG ------------------------- *)
\* Numbers are written with Python's repr and read back with float(), which
\* returns the number written; an attribute holds the number itself.  Blur
\* and stdDeviation are in pixels, with even blurs so that blur / 2 is whole.
\* SVGGenerator._hex_to_rgb_normalized: the channels, in 255ths
_hex_to_rgb_normalized(hex_str) ==
    IF Len(hex_str) = 6
    THEN <<HexByte(hex_str, 1), HexByte(hex_str, 3), HexByte(hex_str, 5)>>
    ELSE <<0, 0, 0>>

\* The values attribute of a feColorMatrix that tints with rgb at an opacity
ColourMatrix(rgb, opacity) ==
    <<0, 0, 0, 0, rgb[1], 0, 0, 0, 0, rgb[2], 0, 0, 0, 0, rgb[3],
      0, 0, 0, opacity, 0>>

\* SVGGenerator._generate_shadow_filter
_generate_shadow_filter(st) ==
    LET shadow == Get(st, "shadow", << >>)
        rgb == _hex_to_rgb_normalized(Get(shadow, "color", Black))
    IN  [id |-> "shadow-filter",
         children |->
            <<[type |-> "feOffset", dx |-> Get(shadow, "offset_x", 5),
               dy |-> Get(shadow, "offset_y", 5)],
              [type |-> "feGaussianBlur",
               stdDeviation |-> Get(shadow, "blur", 10) \div 2],
              [type |-> "feColorMatrix",
               values |-> ColourMatrix(rgb, Get(shadow, "opacity", 60))]>>]

\* A percentage attribute such as "50%" holds the number before the sign
Pct(n) == [pct |-> n]

\* SVGGenerator._get_gradient_coordinates
_get_gradient_coordinates(direction) ==
    CASE direction = "left_right" -> <<Pct(0), Pct(50), Pct(100), Pct(50)>>
      [] direction = "right_left" -> <<Pct(100), Pct(50), Pct(0), Pct(50)>>
      [] direction = "top_bottom" -> <<Pct(50), Pct(0), Pct(50), Pct(100)>>
      [] direction = "bottom_top" -> <<Pct(50), Pct(100), Pct(50), Pct(0)>>
      [] direction = "diagonal" -> <<Pct(0), Pct(0), Pct(100), Pct(100)>>
      [] direction = "diagonal_reverse" ->
             <<Pct(100), Pct(100), Pct(0), Pct(0)>>
      [] direction = "diagonal_bottom" ->
             <<Pct(0), Pct(100), Pct(100), Pct(0)>>
      [] direction = "diagonal_bottom_reverse" ->
             <<Pct(100), Pct(0), Pct(0), Pct(100)>>
      [] OTHER -> <<Pct(50), Pct(0), Pct(50), Pct(100)>>

\* PIPSVGRecorder._direction_to_svg_coords
_direction_to_svg_coords(direction) ==
    CASE direction = "left_right" -> <<Pct(0), Pct(50), Pct(100), Pct(50)>>
      [] direction = "right_left" -> <<Pct(100), Pct(50), Pct(0), Pct(50)>>
      [] direction = "top_bottom" -> <<Pct(50), Pct(0), Pct(50), Pct(100)>>
      [] direction = "bottom_top" -> <<Pct(50), Pct(100), Pct(50), Pct(0)>>
      [] direction = "diagonal" -> <<Pct(0), Pct(0), Pct(100), Pct(100)>>
      [] direction = "diagonal_reverse" ->
             <<Pct(100), Pct(100), Pct(0), Pct(0)>>
      [] direction = "diagonal_bottom" ->
             <<Pct(0), Pct(100), Pct(100), Pct(0)>>
      [] direction = "diagonal_bottom_reverse" ->
             <<Pct(100), Pct(0), Pct(0), Pct(100)>>
      [] OTHER -> <<Pct(50), Pct(0), Pct(50), Pct(100)>>

\* The two stops every generated gradient has
GradientStops(colors, default) ==
    LET used == IF Len(colors) < 2 THEN default ELSE colors
    IN  <<[color |-> used[1], offset |-> Pct(0)],
          [color |-> used[2], offset |-> Pct(100)]>>

SkyBlue == <<0, 0, 6, 6, 15, 15>>

\* SVGGenerator._generate_fill_gradient
_generate_fill_gradient(st) ==
    LET fill == Get(st, "fill", << >>)
        stops == GradientStops(Get(fill, "colors", <<White, SkyBlue>>),
                               <<White, SkyBlue>>)
        coords == _get_gradient_coordinates(Get(fill, "direction", "top_bottom"))
    IN  IF Get(fill, "type", "linear") = "radial"
        THEN [tag |-> "radialGradient", id |-> "fillGradient", stops |-> stops]
        ELSE [tag |-> "linearGradient", id |-> "fillGradient",
              x1 |-> coords[1], y1 |-> coords[2], x2 |-> coords[3],
              y2 |-> coords[4], stops |-> stops]

\* SVGGenerator.generate_svg: the gradient and filter definitions, and the
\* use elements in their order. A style without a fill gets the fill of an
\* empty dict, whose type is not 'solid': a gradient of the default colours.
generate_svg(st) ==
    LET fill == Get(st, "fill", << >>)
        filled == Get(fill, "type", "None") # "none"
        needs_fill_gradient == filled /\ Get(fill, "type", "None") # "solid"
    IN  [gradients |->
            (IF needs_fill_gradient THEN <<_generate_fill_gradient(st)>>
             ELSE << >>),
         filters |->
            (IF "shadow" \in DOMAIN st THEN <<_generate_shadow_filter(st)>>
             ELSE << >>),
         uses |->
            (IF "shadow" \in DOMAIN st
             THEN <<[id |-> "shadow-use", filter |-> [url |-> "shadow-filter"]]>>
             ELSE << >>)
            \o (IF ~filled THEN << >>
                ELSE IF needs_fill_gradient
                THEN <<[id |-> "fill-use", fill |-> [url |-> "fillGradient"]]>>
                ELSE <<[id |-> "fill-use",
                        fill |-> [hex |-> Get(fill, "color", Black)]]>>)]

\* SVGParser._parse_percentage, in hundredths: '50%' is 0.5
_parse_percentage(value) == value.pct

\* SVGParser._calculate_gradient_direction on coordinates in hundredths
_calculate_gradient_direction(x1, y1, x2, y2) ==
    CASE <<x1, y1, x2, y2>> = <<50, 0, 50, 100>> ->
             [direction |-> "top_bottom", angle |-> Num(180)]
      [] <<x1, y1, x2, y2>> = <<50, 100, 50, 0>> ->
             [direction |-> "bottom_top", angle |-> Num(0)]
      [] <<x1, y1, x2, y2>> = <<0, 50, 100, 50>> ->
             [direction |-> "left_right", angle |-> Num(90)]
      [] <<x1, y1, x2, y2>> = <<100, 50, 0, 50>> ->
             [direction |-> "right_left", angle |-> Num(270)]
      [] <<x1, y1, x2, y2>> = <<0, 0, 100, 100>> ->
             [direction |-> "diagonal", angle |-> Num(45)]
      [] <<x1, y1, x2, y2>> = <<100, 0, 0, 100>> ->
             [direction |-> "diagonal_reverse", angle |-> Num(135)]
      [] <<x1, y1, x2, y2>> = <<0, 100, 100, 0>> ->
             [direction |-> "diagonal_bottom", angle |-> Num(315)]
      [] <<x1, y1, x2, y2>> = <<100, 100, 0, 0>> ->
             [direction |-> "diagonal_bottom_reverse", angle |-> Num(225)]
      [] OTHER -> [direction |-> "custom",
                   angle |-> Atan2Degrees(y2 - y1, x2 - x1)]

\* SVGParser._extract_gradients: one linearGradient element
ParsedGradient(g) ==
    LET x1 == _parse_percentage(Get(g, "x1", Pct(0)))
        y1 == _parse_percentage(Get(g, "y1", Pct(0)))
        x2 == _parse_percentage(Get(g, "x2", Pct(100)))
        y2 == _parse_percentage(Get(g, "y2", Pct(100)))
        named == _calculate_gradient_direction(x1, y1, x2, y2)
    IN  [type |-> "linear", x1 |-> x1, y1 |-> y1, x2 |-> x2, y2 |-> y2,
         stops |-> [i \in 1 .. Len(g.stops) |->
                       [color |-> g.stops[i].color,
                        offset |-> _parse_percentage(g.stops[i].offset),
                        opacity |-> 100]],
         direction |-> named.direction, angle |-> named.angle]

\* SVGParser._extract_filters and _extract_uses
SeqRange(seq) == {seq[i] : i \in 1 .. Len(seq)}

\* SVGParser.extract_styles: the gradients, filters and use elements found
extract_styles(doc) ==
    [gradients |->
        [id \in {g.id : g \in {h \in SeqRange(doc.gradients) :
                                  h.tag = "linearGradient"}} |->
            ParsedGradient(CHOOSE g \in SeqRange(doc.gradients) :
                               g.tag = "linearGradient" /\ g.id = id)],
     filters |-> [id \in {f.id : f \in SeqRange(doc.filters)} |->
                    [children |->
                        (CHOOSE f \in SeqRange(doc.filters) : f.id = id).children]],
     uses |-> [i \in 1 .. Len(doc.uses) |->
                [id |-> doc.uses[i].id,
                 fill |-> Get(doc.uses[i], "fill", [none |-> TRUE]),
                 filter |-> IF "filter" \in DOMAIN doc.uses[i]
                            THEN [some |-> TRUE, id |-> doc.uses[i].filter.url]
                            ELSE None]]]

\* SVGStyleConverter._extract_fill_properties: the first use element filled
\* with a gradient the parser knows gives the fill; any other fill is the
\* default colour
GradientFills(data) ==
    SelectSeq(data.uses,
              LAMBDA use : /\ "url" \in DOMAIN use.fill
                           /\ use.fill.url \in DOMAIN data.gradients
                           /\ data.gradients[use.fill.url].stops # << >>)

_extract_fill_properties(data) ==
    IF GradientFills(data) = << >>
    THEN ("fill" :> Magenta) @@ ("fill_opacity" :> 100)
    ELSE LET gradient == data.gradients[GradientFills(data)[1].fill.url]
         IN  ("fill" :> [type |-> "gradient",
                         colors |-> [i \in 1 .. Len(gradient.stops) |->
                                        gradient.stops[i].color],
                         direction |-> gradient.direction,
                         angle |-> gradient.angle,
                         intensity |-> 100])
             @@ ("fill_opacity" :> gradient.stops[1].opacity)

\* The last child of a filter with the given type, as the loops keep it
NoChild == [type |-> "none"]
ChildOfType(children, t) ==
    LET at == {i \in 1 .. Len(children) : children[i].type = t}
    IN  IF at = {} THEN NoChild ELSE children[SetMax(at)]

\* r > 0.5 and g < 0.3 and b > 0.5 on channels held in 255ths
Pinkish(values) == values[5] >= 128 /\ values[10] <= 76 /\ values[15] >= 128

\* SVGStyleConverter._extract_shadow_effect for a filter without feComposite
_extract_shadow_effect(filter_info) ==
    LET offset_component == ChildOfType(filter_info.children, "feOffset")
        blur_component == ChildOfType(filter_info.children, "feGaussianBlur")
        color_matrix == ChildOfType(filter_info.children, "feColorMatrix")
        offset_x == Get(offset_component, "dx", 0)
        offset_y == Get(offset_component, "dy", 0)
        blur_std == Get(blur_component, "stdDeviation", 0)
    IN  IF filter_info.children = << >> \/ offset_component = NoChild
           \/ blur_component = NoChild THEN None
        ELSE IF offset_x = 0 /\ offset_y = 0 /\ blur_std > 3 THEN None
        ELSE [some |-> TRUE, type |-> "shadow",
              data |-> [color |-> IF color_matrix # NoChild
                                     /\ Pinkish(color_matrix.values)
                                  THEN Magenta ELSE Black,
                        offset_x |-> offset_x, offset_y |-> offset_y,
                        blur |-> blur_std, opacity |-> 70]]

\* The words the converter looks for in a filter id
IdHas(filter_id, word) ==
    word \in (CASE filter_id = "shadow-filter" -> {"shadow"}
               [] filter_id = "inner-shadow-filter" ->
                      {"inner-shadow", "inner", "shadow"}
               [] filter_id = "glow-filter" -> {"glow"}
               [] OTHER -> {})

\* SVGStyleConverter._extract_filter_effects: the first shadow found
ShadowsFound(data) ==
    SelectSeq([i \in 1 .. Len(data.uses) |->
                  IF data.uses[i].filter.some
                     /\ data.uses[i].filter.id \in DOMAIN data.filters
                     /\ IdHas(data.uses[i].filter.id, "shadow")
                     /\ ~IdHas(data.uses[i].filter.id, "inner")
                  THEN _extract_shadow_effect(
                           data.filters[data.uses[i].filter.id])
                  ELSE None],
              LAMBDA e : e.some)

_extract_filter_effects(data) ==
    IF ShadowsFound(data) # << >>
    THEN "shadow" :> ShadowsFound(data)[1].data
    ELSE << >>

\* SVGStyleConverter.convert_to_json_style: the fill and the effects read back
convert_to_json_style(data) ==
    _extract_fill_properties(data) @@ _extract_filter_effects(data)

\* Shadows a style can carry into the SVG
SvgShadows ==
    {"shadow" :> [color |-> c, opacity |-> o, offset_x |-> x, offset_y |-> y,
                  blur |-> b] :
        c \in {Black, Red, Magenta}, o \in {50, 70}, x \in {0, 5},
        y \in {0, 5}, b \in {0, 2, 10}}

\* Names a style can give its gradient direction: the eight the code knows
\* and one it does not
NamedDirections ==
    {"left_right", "right_left", "top_bottom", "bottom_top", "diagonal",
     "diagonal_reverse", "diagonal_bottom", "diagonal_bottom_reverse"}

SvgFills ==
    {"fill" :> [type |-> "gradient", colors |-> <<Pink, Sand>>, direction |-> d] :
        d \in NamedDirections \cup {"sideways"}}
    \cup {"fill" :> [type |-> "radial", colors |-> <<Pink, Sand>>],
          "fill" :> [type |-> "solid", color |-> Blue],
          "fill" :> [type |-> "none"]}

SvgStyles ==
    SvgShadows \cup SvgFills
    \cup {f @@ s : f \in SvgFills,
                   s \in {t \in SvgShadows : t["shadow"]["blur"] = 2
                                              /\ t["shadow"]["opacity"] = 70
                                              /\ t["shadow"]["color"] = Black}}

InitSvg ==
    /\ base_img = NewImage(Transparent)
    /\ style = << >>
    /\ caller = "direct"
    /\ debug_output = FALSE
    /\ NoNode
    /\ pc = "idle"
    /\ effects_order = << >>
    /\ idx = 0
    /\ result = NewImage(Transparent)
    /\ layers = << >>
    /\ composited = << >>
    /\ ret = NoReturn
    /\ outcome = "pending"
    /\ history = << >>
    /\ NoLayout
    /\ NoSearch
    /\ svg_pc = "style"
    /\ svg_style \in SvgStyles
    /\ svg_doc = << >>
    /\ svg_data = << >>
    /\ svg_back = << >>

\* SVGGenerator.generate_svg writes the document
GenerateSvg ==
    /\ svg_pc = "style"
    /\ svg_doc' = generate_svg(svg_style)
    /\ svg_pc' = "written"
    /\ UNCHANGED <<render, processor, node, svg_style, svg_data, svg_back,
                   layout, search>>

\* SVGParser(svg_path).parse()
ParseSvg ==
    /\ svg_pc = "written"
    /\ svg_data' = extract_styles(svg_doc)
    /\ svg_pc' = "parsed"
    /\ UNCHANGED <<render, processor, node, svg_style, svg_doc, svg_back,
                   layout, search>>

\* SVGStyleConverter(svg_data).convert_to_json_style()
ConvertSvg ==
    /\ svg_pc = "parsed"
    /\ svg_back' = convert_to_json_style(svg_data)
    /\ svg_pc' = "converted"
    /\ UNCHANGED <<render, processor, node, svg_style, svg_doc, svg_data,
                   layout, search>>

NextSvg ==
    \/ GenerateSvg
    \/ ParseSvg
    \/ ConvertSvg

SpecSvg == InitSvg /\ [][NextSvg]_vars

(* ------------------------- laying the text out ------------------------ *)
\* The state of the variables no layout or search touches
Idle ==
    /\ base_img = NewImage(Transparent)
    /\ style = << >>
    /\ caller = "direct"
    /\ debug_output = FALSE
    /\ NoNode
    /\ pc = "idle"
    /\ effects_order = << >>
    /\ idx = 0
    /\ result = NewImage(Transparent)
    /\ layers = << >>
    /\ composited = << >>
    /\ ret = NoReturn
    /\ outcome = "pending"
    /\ history = << >>
    /\ svg_pc = "none"
    /\ svg_style = << >>
    /\ svg_doc = << >>
    /\ svg_data = << >>
    /\ svg_back = << >>

\* Image sides and margins (hundredths, of the range 0.05 .. 0.8 the node
\* declares) on which int(side * margin) and int(side * margin * 1.5) in
\* double arithmetic are the whole parts of the exact products
ImageSides == {8, 20, 100}
Margins == {5, 25, 30, 80}
MarginNames == {"left", "top", "right", "bottom"}

\* Styles as far as the glow detection reads them: radius in pixels,
\* intensity in hundredths
LayoutStyles ==
    {<< >>,
     "glow" :> [radius |-> 10, intensity |-> 100],
     "glow" :> [radius |-> 0, intensity |-> 100],
     "outer_glow" :> [radius |-> 10, intensity |-> 100]}

\* int(side * margin) and int(side * margin * 1.5)
MarginPixels(side, m) == (side * m) \div 100
GlowMarginPixels(side, m) == (side * m * 15) \div 1000

\* The glow detection of generate_artistic_text
has_glow(sd) ==
    \/ /\ "glow" \in DOMAIN sd
       /\ Get(sd["glow"], "radius", 0) > 0
       /\ Get(sd["glow"], "intensity", 0) > 0
    \/ /\ "outer_glow" \in DOMAIN sd
       /\ Get(sd["outer_glow"], "radius", 0) > 0
       /\ Get(sd["outer_glow"], "intensity", 0) > 0

\* The safe area (left, top, right, bottom) from the margins alone
NominalSafeArea(w, h, m) ==
    <<MarginPixels(w, m["left"]), MarginPixels(h, m["top"]),
      w - MarginPixels(w, m["right"]), h - MarginPixels(h, m["bottom"])>>

\* The safe area widened for a glow and kept inside the image
GlowSafeArea(w, h, m) ==
    <<Max2(0, Min2(GlowMarginPixels(w, m["left"]), w \div 4)),
      Max2(0, Min2(GlowMarginPixels(h, m["top"]), h \div 4)),
      Min2(w, Max2(w - GlowMarginPixels(w, m["right"]), w - w \div 4)),
      Min2(h, Max2(h - GlowMarginPixels(h, m["bottom"]), h - h \div 4))>>

InitLayout ==
    /\ Idle
    /\ NoSearch
    /\ area_pc = "margins"
    /\ image_width \in ImageSides
    /\ image_height \in ImageSides
    /\ margin \in [MarginNames -> Margins]
    /\ style_data \in LayoutStyles
    /\ safe_area = << >>

\* generate_artistic_text: the safe area from the margins
ComputeSafeArea ==
    /\ area_pc = "margins"
    /\ safe_area' = NominalSafeArea(image_width, image_height, margin)
    /\ area_pc' = "glow?"
    /\ UNCHANGED <<render, processor, node, exchange, search, image_width,
                   image_height, margin, style_data>>

\* generate_artistic_text: a style with a glow gets the wider margins
ExpandForGlow ==
    /\ area_pc = "glow?"
    /\ has_glow(style_data)
    /\ safe_area' = GlowSafeArea(image_width, image_height, margin)
    /\ area_pc' = "done"
    /\ UNCHANGED <<render, processor, node, exchange, search, image_width,
                   image_height, margin, style_data>>

\* generate_artistic_text: a style without a glow keeps the safe area
KeepSafeArea ==
    /\ area_pc = "glow?"
    /\ ~has_glow(style_data)
    /\ area_pc' = "done"
    /\ UNCHANGED <<render, processor, node, exchange, search, image_width,
                   image_height, margin, style_data, safe_area>>

NextLayout ==
    \/ ComputeSafeArea
    \/ ExpandForGlow
    \/ KeepSafeArea

SpecLayout == InitLayout /\ [][NextLayout]_vars

(* ----------------------- searching the font size ---------------------- *)
\* Font sizes the search runs over
MaxFontSize == 7
FontSizes == 1 .. MaxFontSize

\* find_optimal_font_size(text, max_width, max_height, start_size, max_size):
\* the text and the bounds enter through the set of sizes at which the text
\* measured fits; a size whose font fails to load counts as not fitting
InitSearch ==
    /\ Idle
    /\ NoLayout
    /\ fit_pc = "loop"
    /\ start_size \in FontSizes
    /\ max_size \in start_size .. MaxFontSize
    /\ fitting \in SUBSET (start_size .. max_size)
    /\ low = start_size
    /\ high = max_size
    /\ optimal_size = start_size

mid == (low + high) \div 2

\* The text fits at mid: the size is kept and the search goes up
TryLarger ==
    /\ fit_pc = "loop"
    /\ low <= high
    /\ mid \in fitting
    /\ optimal_size' = mid
    /\ low' = mid + 1
    /\ UNCHANGED <<render, processor, node, exchange, layout, fit_pc,
                   start_size, max_size, fitting, high>>

\* The search going down past the size below mid
TrySmallerSkipping ==
    /\ fit_pc = "loop"
    /\ low <= high
    /\ mid \notin fitting
    /\ high' = mid - 2
    /\ UNCHANGED <<render, processor, node, exchange, layout, fit_pc,
                   start_size, max_size, fitting, low, optimal_size>>

\* The text does not fit at mid, or the font raised: the search goes down
TrySmaller ==
    /\ fit_pc = "loop"
    /\ low <= high
    /\ mid \notin fitting
    /\ high' = mid - 1
    /\ UNCHANGED <<render, processor, node, exchange, layout, fit_pc,
                   start_size, max_size, fitting, low, optimal_size>>

\* The loop ends and optimal_size is returned
ReturnSize ==
    /\ fit_pc = "loop"
    /\ low > high
    /\ fit_pc' = "returned"
    /\ UNCHANGED <<render, processor, node, exchange, layout, start_size,
                   max_size, fitting, low, high, optimal_size>>

NextSearch ==
    \/ TryLarger
    \/ TrySmaller
    \/ ReturnSize

SpecSearch == InitSearch /\ [][NextSearch]_vars

\* The search with the loop never left waiting
FairSearch == SpecSearch /\ WF_vars(NextSearch)

(* ------------------------------- claims ------------------------------- *)
\* text_mask of apply_all_effects: the alpha band of the base image
TextMask == AlphaOf(base_img)

EffectKeys == {"shadow", "glow", "fill", "outline", "inner_shadow"}

\* Guard of an effect as the style descriptor defines it: the key is present,
\* with opacity > 0 and, for the outline, width > 0
GuardMet(e, st) ==
    /\ e \in DOMAIN st
    /\ e # "fill" => Get(st[e], "opacity", 0) > 0
    /\ e = "outline" => Get(st[e], "width", 0) > 0

Keep(e, st) == IF GuardMet(e, st) THEN <<e>> ELSE << >>

ActiveInFixedOrder(st) ==
    Keep("shadow", st) \o Keep("glow", st) \o Keep("fill", st)
    \o Keep("outline", st) \o Keep("inner_shadow", st)

\* C1: apply_all_effects starts from a fully transparent canvas and composites
\* the active effects in the order shadow, glow, fill, outline, inner_shadow;
\* an effect whose guard is unmet is skipped and the order of the others is
\* unchanged.
C1_FixedStackingOrder ==
    /\ (pc = "loop" /\ idx = 1) => \A p \in Pixels : result[p] = Transparent
    /\ pc = "returned" => composited = ActiveInFixedOrder(style)

\* C2: without a fill key no fill layer is composited: a style with no effect
\* key gives a fully transparent canvas, an outline-only style leaves every
\* pixel inside the glyph transparent.
C2_NoFillKeyNoFillLayer ==
    (pc = "returned" /\ "fill" \notin DOMAIN style) =>
        /\ "fill" \notin DOMAIN layers
        /\ DOMAIN style \cap EffectKeys = {} =>
                \A p \in Pixels : result[p].a = 0
        /\ DOMAIN style \cap EffectKeys = {"outline"} =>
                \A p \in Pixels : TextMask[p] = 255 => result[p].a = 0

\* C3: the outline layer of either builder is transparent at every pixel the
\* original text mask covers fully.
C3_OutlineRingIsolation ==
    "outline" \in DOMAIN layers =>
        \A p \in Pixels : TextMask[p] = 255 => layers["outline"][p].a = 0

\* Fill with the capped inner shadow, when there is one, blended over it
FillUnderInnerShadow(p) ==
    IF "inner_shadow" \in DOMAIN layers
    THEN CompositePixel(layers["fill"][p], CapAlpha(layers["inner_shadow"])[p])
    ELSE layers["fill"][p]

\* C4: with fill and outline active, a pixel inside the glyph shows the fill
\* colour with the inner shadow blended over it, never the outline layer; a
\* pixel of the opaque ring outside the glyph shows the outline colour.
C4_OutlineAroundFill ==
    (pc = "returned" /\ {"fill", "outline"} \subseteq DOMAIN layers) =>
        \A p \in Pixels :
            /\ TextMask[p] = 255 => Rgb(result[p]) = Rgb(FillUnderInnerShadow(p))
            /\ (TextMask[p] = 0 /\ layers["outline"][p].a = 255) =>
                    Rgb(result[p]) = Rgb(layers["outline"][p])

\* C5: the inner-shadow layer is transparent wherever the text mask is 0, for
\* every mask, offset and opacity > 0, after contrast and opacity scaling.
C5_InnerShadowConfined ==
    "inner_shadow" \in DOMAIN layers =>
        \A p \in Pixels : TextMask[p] = 0 => layers["inner_shadow"][p].a = 0

C5_Witness ==
    /\ "inner_shadow" \in DOMAIN layers
    /\ \E p \in Pixels : TextMask[p] = 0
    /\ \E p \in Pixels : layers["inner_shadow"][p].a > 0

\* A key that is present but switched off by its opacity or width
Disabled(k, st) ==
    /\ k \in DOMAIN st
    /\ \/ Get(st[k], "opacity", 0) <= 0
       \/ k = "outline" /\ Get(st[k], "width", 0) <= 0

Without(st, k) == [x \in DOMAIN st \ {k} |-> st[x]]

\* C6: a style whose shadow, glow, outline or inner_shadow key is present with
\* opacity <= 0 (or outline width <= 0) renders to the same image and the
\* same layers as the style without that key.
C6_GuardEquivalence ==
    pc = "returned" =>
        \A k \in {"shadow", "glow", "outline", "inner_shadow"} :
            Disabled(k, style) =>
                LET other == apply_all_effects(base_img, Without(style, k))
                IN  result = other.result /\ layers = other.layers

C6_Witness ==
    /\ pc = "returned"
    /\ \E k \in {"shadow", "glow", "outline", "inner_shadow"} : Disabled(k, style)
    /\ \E k \in {"shadow", "glow", "outline", "inner_shadow"} : k \in DOMAIN layers
    /\ \E p \in Pixels : result[p].a > 0

\* A solid fill of opacity 1 and its colour
SolidOpaqueFill(st) ==
    /\ "fill" \in DOMAIN st
    /\ IsDict(st["fill"]) =>
            /\ Get(st["fill"], "type", "solid") = "solid"
            /\ Get(st["fill"], "opacity", 100) = 100

FillPixel(st) ==
    LET c == hex_to_rgba(IF IsDict(st["fill"]) THEN st["fill"]["color"]
                         ELSE st["fill"]["str"], 255)
    IN  Px(c.r, c.g, c.b, 255)

\* The fill layer, and the output of a fill-only style, is the fill colour
\* with alpha 255 on the pixels of Covered and fully transparent elsewhere
FillIsBinaryOn(Covered) ==
    ("fill" \in DOMAIN layers /\ SolidOpaqueFill(style)) =>
        /\ \A p \in Pixels :
               IF p \in Covered THEN layers["fill"][p] = FillPixel(style)
               ELSE layers["fill"][p].a = 0
        /\ (pc = "returned" /\ DOMAIN style \cap EffectKeys = {"fill"}) =>
               result = layers["fill"]

\* C7 as stated: alpha 255 exactly where the text mask is nonzero
C7_FillWhereMaskNonzero == FillIsBinaryOn({p \in Pixels : TextMask[p] # 0})

\* C7 amended: for a solid fill of opacity 1 the fill layer, and the output
\* of a fill-only style, has the fill colour with alpha 255 where the text
\* mask is at least 128 and alpha 0 at every other pixel.
C7_FillWhereMaskAtLeastHalf == FillIsBinaryOn({p \in Pixels : TextMask[p] >= 128})

C7_Witness ==
    /\ pc = "returned"
    /\ SolidOpaqueFill(style)
    /\ DOMAIN style \cap EffectKeys = {"fill"}
    /\ \E p \in Pixels : TextMask[p] \in 128 .. 254 /\ result[p].a = 255
    /\ \E p \in Pixels : TextMask[p] \in 1 .. 127 /\ result[p].a = 0

\* C8: with blur 0 the shadow layer is the text mask shifted by the offset,
\* its alpha the mask alpha times the opacity up to truncation, partially
\* covered pixels included.
C8_ShadowIsShiftedMask ==
    ("shadow" \in DOMAIN layers /\ style["shadow"]["blur"] = 0) =>
        \A p \in Pixels :
            LET q == <<p[1] + style["shadow"]["offset_x"],
                       p[2] + style["shadow"]["offset_y"]>>
                exact == TextMask[p] * style["shadow"]["opacity"]
            IN  q \in Pixels =>
                    /\ 100 * layers["shadow"][q].a > exact - 100
                    /\ 100 * layers["shadow"][q].a <= exact

\* The node UI switched the fill off
FillSwitchedOff(st) ==
    \/ "fill" \notin DOMAIN st
    \/ IsDict(st["fill"]) /\ Get(st["fill"], "type", "") = "none"

\* C9: when the node UI disables the fill (or selects no fill), no pixel of
\* the output is painted by a fill layer.
C9_DisabledFillPaintsNothing ==
    (pc \in {"returned", "done"}
     /\ caller \in {"PIPArtisticWordsFusion", "PIPSVGRecorder"}
     /\ FillSwitchedOff(style)) =>
        \/ "fill" \notin DOMAIN layers
        \/ \A p \in Pixels : layers["fill"][p].a = 0

\* C10: every caller obtains the rendered image from the value returned by
\* apply_all_effects and completes without raising.
C10_CallersComplete == pc = "done" => outcome = "completed"

\* The colour strings a style carries
ColoursIn(v) ==
    IF ~IsDict(v) THEN {v["str"]}
    ELSE (IF "color" \in DOMAIN v THEN {v["color"]} ELSE {})
         \cup (IF "colors" \in DOMAIN v
               THEN {v["colors"][i] : i \in 1 .. Len(v["colors"])} ELSE {})
         \cup (IF "gradient" \in DOMAIN v
               THEN {v["gradient"]["colors"][i] :
                        i \in 1 .. Len(v["gradient"]["colors"])}
               ELSE {})

ColoursOf(st) == UNION {ColoursIn(st[k]) : k \in DOMAIN st}

Malformed(hex) == Len(hex) \notin {6, 8} \/ ~IsHex(hex)

\* C11: a malformed colour string never raises: hex_to_rgba returns opaque
\* white for it, and no effect builder propagates an exception to the caller
\* of apply_all_effects because of a bad colour value.
C11_MalformedColourNeverRaises ==
    /\ \A hex \in ColoursOf(style) :
           Malformed(hex) => hex_to_rgba(hex, 255) = Px(255, 255, 255, 255)
    /\ pc # "raised"

\* The fill colour of the style is an eight-digit string
EightDigitFill(st) ==
    /\ "fill" \in DOMAIN st
    /\ \E hex \in ColoursIn(st["fill"]) : Len(hex) = 8 /\ IsHex(hex)

\* C12: an eight-digit colour #RRGGBBAA in an effect object without opacity
\* gives the effect's layer the alpha AA inside the glyph (a fill of
\* '#FF000080' has alpha 128 there); with opacity given, AA is ignored and the
\* alpha is 255 times the opacity.
C12_EightDigitAlpha ==
    ("fill" \in DOMAIN layers /\ EightDigitFill(style)) =>
        \A p \in Pixels :
            TextMask[p] = 255 =>
                layers["fill"][p].a =
                    IF IsDict(style["fill"]) /\ "opacity" \in DOMAIN style["fill"]
                    THEN ScaleAlpha(255, style["fill"]["opacity"])
                    ELSE CHOOSE a \in 0 .. 255 :
                            \A hex \in ColoursIn(style["fill"]) :
                                a = HexByte(hex, 7)

\* The calls of _create_gradient a style leads to once its fill or outline
\* has been built: colours, angle and direction as the builder passes them
GradientCalls ==
    (IF "fill" \in DOMAIN layers /\ "fill" \in DOMAIN style
        /\ IsDict(style["fill"])
        /\ Get(style["fill"], "type", "None") \in {"gradient", "linear", "radial"}
     THEN {[type |-> style["fill"]["type"],
            colors |-> RgbList(style["fill"]["colors"]),
            angle |-> Num(Get(style["fill"], "angle", 90)),
            direction |-> Get(style["fill"], "direction", "None")]}
     ELSE {})
    \cup
    (IF "outline" \in DOMAIN layers
        /\ "gradient" \in DOMAIN style["outline"]
     THEN LET gradient == style["outline"]["gradient"]
          IN  {[type |-> Get(gradient, "type", "None"),
                colors |-> RgbList(gradient["colors"]),
                angle |-> OutlineAngle(gradient),
                direction |-> Get(gradient, "direction", "left_right")]}
     ELSE {})

Rasterised(call) == _create_gradient(call.colors, call.angle, call.direction)

\* Every channel of the pixel is within one unit of the colour
Near(pixel, colour) ==
    /\ \A i \in 1 .. 3 : Rgb(pixel)[i] - colour[i] \in -1 .. 1
    /\ pixel.a = 255

LeftToRight(call) ==
    /\ Len(call.colors) = 2
    /\ \/ call.direction = "left_right"
       \/ call.direction = "None" /\ call.angle = Num(0)

\* C13: a gradient of two colours [c0, c1] from left to right, given as the
\* angle 0 or as the direction 'left_right', has c0 in the leftmost column
\* and c1 in the rightmost column, within one unit per channel.
C13_GradientEndpoints ==
    \A call \in GradientCalls :
        LeftToRight(call) =>
            \A y \in Ys :
                /\ Near(Rasterised(call)[<<0, y>>], call.colors[1])
                /\ Near(Rasterised(call)[<<Width - 1, y>>], call.colors[2])

\* C14: a gradient of a single colour [c0] is c0, opaque, at every pixel, for
\* every angle and every named direction.
C14_SingleColourGradient ==
    \A call \in GradientCalls :
        Len(call.colors) = 1 =>
            \A p \in Pixels :
                Rasterised(call)[p] = Px(call.colors[1][1], call.colors[1][2],
                                         call.colors[1][3], 255)

C14_Witness ==
    /\ \E call \in GradientCalls :
           Len(call.colors) = 1 /\ call.direction = "None"
           /\ call.angle = Num(270)
    /\ \E p \in Pixels : layers["fill"][p] = Px(238, 40, 131, 255)

\* Squared distance of a pixel's centre from the centre of the canvas, in
\* half pixels
FromCentre(p) ==
    (2 * p[1] + 1 - Width) * (2 * p[1] + 1 - Width)
    + (2 * p[2] + 1 - Height) * (2 * p[2] + 1 - Height)

\* C15: a gradient of type 'radial' is a radial field for fill and outline:
\* the colour of a pixel depends on its distance from the canvas centre only,
\* the farthest pixels have the last colour, and requesting it never raises.
C15_RadialGradient ==
    /\ outcome # "TypeError"
    /\ \A call \in GradientCalls :
           call.type = "radial" =>
               \A p, q \in Pixels :
                   /\ FromCentre(p) = FromCentre(q) =>
                          Rasterised(call)[p] = Rasterised(call)[q]
                   /\ (\A r \in Pixels : FromCentre(r) <= FromCentre(p)) =>
                          Near(Rasterised(call)[p],
                               call.colors[Len(call.colors)])

\* Every pixel of the image has alpha 0
FullyTransparent(im) == \A p \in Pixels : im[p].a = 0

\* C16: for a base image whose alpha is 0 at every pixel and any style, every
\* builder returns a fully transparent layer (or None), apply_all_effects
\* returns a fully transparent canvas, and no exception is raised.
C16_DegenerateMask ==
    (\A p \in Pixels : TextMask[p] = 0) =>
        /\ \A k \in DOMAIN layers : FullyTransparent(layers[k])
        /\ FullyTransparent(result)
        /\ pc = "returned" => FullyTransparent(ret.items[1])
        /\ pc # "raised"

StyledText == ret.items[1]

OpaqueInput == \A p \in Pixels : pil_image[p].a = 255

\* C18: a global text opacity p < 1 (ArtisticTextNode opacity, fusion
\* text_opacity) scales the overlay alpha by p, so on an opaque input the
\* output pixels under the text differ from the output with p = 1.
C18_GlobalTextOpacity ==
    (pc = "done" /\ caller \in ImageNodes /\ text_opacity < 100
        /\ OpaqueInput /\ \E p \in Pixels : StyledText[p].a > 0) =>
        /\ outcome = "completed"
        /\ \A p \in Pixels :
              StyledText[p].a > 0 =>
                  output[p] # FusionOutput(pil_image, StyledText, 100)[p]

\* The style with the outline opacity set to 1
OpaqueOutline(st) == [st EXCEPT !["outline"]["opacity"] = 100]

\* The pixels of the outline ring: where dilating the mask raised the alpha
RingPixels(st) ==
    LET mask == AlphaOf(OutlineBase(base_img))
        w == st["outline"]["width"]
        n == IF "gradient" \in DOMAIN st["outline"] THEN IntOfTenths(w)
             ELSE RoundOfTenths(w)
    IN  {p \in Pixels : Dilate(mask, n)[p] > mask[p]}

\* C19: the alpha of the outline layer is scaled by the outline opacity in
\* both builders: for an opacity p strictly between 0 and 1 every ring pixel
\* has the alpha of the unscaled ring times p, truncated.
C19_OutlineOpacityScales ==
    (pc = "returned" /\ "outline" \in DOMAIN layers
        /\ style["outline"]["opacity"] \in 1 .. 99) =>
        LET unscaled == BuildLayer("outline", base_img, OpaqueOutline(style)).im
        IN  \A p \in RingPixels(style) :
                layers["outline"][p].a =
                    ScaleAlpha(unscaled[p].a, style["outline"]["opacity"])

\* The single glow pass: the mask blurred by radius, times opacity * intensity
SinglePass(st) ==
    [p \in Pixels |->
        Min2((TextMask[p] * Normalise(st["glow"]["opacity"])
                          * Normalise(st["glow"]["intensity"])) \div 10000, 255)]

\* C20: the alpha of the glow layer is the blurred mask scaled by
\* opacity * intensity; at a normalised intensity above 0.6 a second pass,
\* blurred with half the radius, is added on top, so the alpha exceeds the
\* single pass wherever that is neither 0 nor 255; at an intensity of at most
\* 0.6 the layer is the single pass.
C20_GlowIntensityBoost ==
    (pc = "returned" /\ "glow" \in DOMAIN layers) =>
        \A p \in Pixels :
            IF Normalise(style["glow"]["intensity"]) > 60
                /\ SinglePass(style)[p] \in 1 .. 254
            THEN layers["glow"][p].a > SinglePass(style)[p]
            ELSE layers["glow"][p].a = SinglePass(style)[p]

\* Chebyshev distance of two pixels
Chebyshev(p, q) ==
    Max2(Max2(p[1] - q[1], q[1] - p[1]), Max2(p[2] - q[2], q[2] - p[2]))

\* The pixels within Chebyshev distance n of a nonzero pixel of the text mask
Reach(n) ==
    {p \in Pixels : \E q \in Pixels : TextMask[q] # 0 /\ Chebyshev(p, q) <= n}

\* The dilated region an outline layer shows: the ring and the glyph under it
Covered(layer) == {p \in Pixels : layer[p].a > 0 \/ TextMask[p] # 0}

\* The same outline handed to the other outline builder
OtherBuilder(st) ==
    [st EXCEPT !["outline"] =
        IF "gradient" \in DOMAIN st["outline"]
        THEN [width |-> st["outline"]["width"],
              opacity |-> st["outline"]["opacity"], color |-> Blue]
        ELSE [width |-> st["outline"]["width"],
              opacity |-> st["outline"]["opacity"],
              gradient |-> [type |-> "linear", direction |-> "left_right",
                            colors |-> <<Pink, Sand>>]]]

OutlineBuilt ==
    /\ pc = "returned"
    /\ "outline" \in DOMAIN layers
    /\ style["outline"]["opacity"] = 100

\* C21: the outline grows by a 3x3 max filter applied width times: for an
\* integer width w >= 1 the dilated mask is the set of pixels within
\* Chebyshev distance w of a nonzero mask pixel, and for every width the
\* guard accepts, integer or not, the solid and the gradient builder dilate
\* by the same number of iterations.
C21_OutlineGrowth ==
    OutlineBuilt =>
        /\ style["outline"]["width"] % 10 = 0 =>
               Covered(layers["outline"]) = Reach(style["outline"]["width"] \div 10)
        /\ Covered(layers["outline"]) =
               Covered(BuildLayer("outline", base_img, OtherBuilder(style)).im)

\* C22: the parameters of a shadow survive the way through the SVG: the
\* style read back has a shadow with the colour, opacity, offsets and blur of
\* the shadow written, and the shadow is neither dropped nor read as a glow.
C22_ShadowRoundTrip ==
    (svg_pc = "converted" /\ "shadow" \in DOMAIN svg_style) =>
        /\ "shadow" \in DOMAIN svg_back
        /\ "glow" \notin DOMAIN svg_back
        /\ \A k \in {"color", "opacity", "offset_x", "offset_y", "blur"} :
               svg_back["shadow"][k] = svg_style["shadow"][k]

\* The corners a pair of coordinates in percent names on the canvas
CornersOf(coords) ==
    <<(coords[1].pct * Width) \div 100, (coords[2].pct * Height) \div 100,
      (coords[3].pct * Width) \div 100, (coords[4].pct * Height) \div 100>>

\* The direction the parser reads from the coordinates written for a name
ReadBack(coords) ==
    _calculate_gradient_direction(
        _parse_percentage(coords[1]), _parse_percentage(coords[2]),
        _parse_percentage(coords[3]), _parse_percentage(coords[4])).direction

FillRead ==
    /\ svg_pc = "converted"
    /\ "fill" \in DOMAIN svg_style
    /\ svg_style["fill"]["type"] = "gradient"
    /\ svg_style["fill"]["direction"] \in NamedDirections

\* C23: a named gradient direction survives the way through the SVG
\* coordinates: the parser reads the coordinates the generator (and the
\* recorder) writes for a name back as that name, so the fill read back has
\* the direction of the fill written, and the name denotes in
\* _create_gradient the corners the coordinates denote.
C23_DirectionRoundTrip ==
    FillRead =>
        LET d == svg_style["fill"]["direction"]
        IN  /\ svg_back["fill"]["direction"] = d
            /\ ReadBack(_get_gradient_coordinates(d)) = d
            /\ ReadBack(_direction_to_svg_coords(d)) = d
            /\ GradientLine(d) = CornersOf(_get_gradient_coordinates(d))

GlowActive == area_pc = "done" /\ has_glow(style_data)

\* C24: with a glow active, for every image size and margins in the allowed
\* range, each margin of the safe area is at least the nominal margin (the
\* glow safe area lies inside the safe area without glow), and
\* 0 <= left <= right <= width and 0 <= top <= bottom <= height.
C24_GlowSafeArea ==
    GlowActive =>
        LET nominal == NominalSafeArea(image_width, image_height, margin)
        IN  /\ safe_area[1] >= nominal[1]
            /\ safe_area[2] >= nominal[2]
            /\ safe_area[3] <= nominal[3]
            /\ safe_area[4] <= nominal[4]
            /\ 0 <= safe_area[1] /\ safe_area[1] <= safe_area[3]
            /\ safe_area[3] <= image_width
            /\ 0 <= safe_area[2] /\ safe_area[2] <= safe_area[4]
            /\ safe_area[4] <= image_height

\* Fitting is monotone: a text that fits at a size fits at every smaller one
Monotone == \A a \in fitting : \A b \in start_size .. a : b \in fitting

SizeReturned == fit_pc = "returned"

\* C25: find_optimal_font_size always terminates and returns a size s with
\* start_size <= s <= max_size; when fitting is monotone in the size, s is
\* the largest size of the range at which the text fits, and the text
\* rendered at the size returned fits within the bounds.
C25_OptimalFontSize ==
    SizeReturned =>
        /\ start_size <= optimal_size /\ optimal_size <= max_size
        /\ Monotone =>
               /\ optimal_size \in fitting
               /\ \A n \in start_size .. max_size :
                      n \in fitting => n <= optimal_size

\* C25, amended: every search returns, with a size of the range; when
\* fitting is monotone and the text fits at some size of the range, the size
\* returned is the largest at which it fits; when it fits at none, the size
\* returned is start_size, at which the text does not fit.
C25_LargestOrStartSize ==
    /\ <>SizeReturned
    /\ [](SizeReturned =>
            /\ start_size <= optimal_size /\ optimal_size <= max_size
            /\ (Monotone /\ fitting # {}) =>
                   /\ optimal_size \in fitting
                   /\ \A n \in fitting : n <= optimal_size
            /\ fitting = {} => optimal_size = start_size)

\* A search that went both up and down and found the largest size that fits
C25_Witness ==
    /\ SizeReturned
    /\ Monotone
    /\ start_size < optimal_size
    /\ optimal_size < max_size
    /\ optimal_size + 1 \notin fitting

\* The builder of an effect, called directly with the style, renders a layer
Renders(effect_name) ==
    /\ ~IsError(BuildLayer(effect_name, base_img, style))
    /\ BuildLayer(effect_name, base_img, style).some

\* The key of an effect is present (with a width above 0 for the outline)
\* and has no opacity field
OpacityMissing(effect_name) ==
    /\ effect_name \in DOMAIN style
    /\ "opacity" \notin DOMAIN style[effect_name]
    /\ effect_name = "outline" => Get(style["outline"], "width", 0) > 0

\* C26: a missing opacity is defaulted consistently: for shadow, glow,
\* outline and inner_shadow with the key present and no opacity field,
\* apply_all_effects treats the effect as active exactly when its builder,
\* called directly with the same style, renders it.
C26_MissingOpacityDefault ==
    pc = "returned" =>
        \A e \in {"shadow", "glow", "outline", "inner_shadow"} :
            OpacityMissing(e) =>
                ((e \in SeqRange(effects_order)) <=> Renders(e))

CustomOutlineBuilt ==
    /\ pc = "returned"
    /\ "outline" \in DOMAIN layers
    /\ "gradient" \in DOMAIN style["outline"]
    /\ Get(style["outline"]["gradient"], "direction", "None") = "custom"
    /\ "svg_coords" \in DOMAIN style["outline"]["gradient"]

\* The coordinates run from left to right: the angle derived from them is 0
Horizontal(c) == c.y1 = c.y2 /\ c.x1 < c.x2
Vertical(c) == c.x1 = c.x2 /\ c.y1 < c.y2

\* The gradient of the outline's colours along the line of angle 0
AlongAngleZero ==
    _create_gradient(RgbList(style["outline"]["gradient"]["colors"]), Num(0),
                     "None")

SameColour(p, q) == p.r = q.r /\ p.g = q.g /\ p.b = q.b

\* C27: a gradient outline with direction 'custom' and svg_coords is
\* rasterised along the angle derived from the coordinates: with
\* coordinates running from left to right the ring is coloured by the
\* gradient of angle 0, and a style that differs only in coordinates of
\* another direction gives another outline wherever the two axes colour the
\* ring differently.
C27_CustomGradientAxis ==
    (CustomOutlineBuilt /\ Horizontal(style["outline"]["gradient"]["svg_coords"])) =>
        /\ \A p \in Pixels :
               layers["outline"][p].a > 0 =>
                   SameColour(layers["outline"][p], AlongAngleZero[p])
        /\ \A c \in {d \in CustomCoords : Vertical(d)} :
               (\E p \in Pixels :
                    /\ layers["outline"][p].a > 0
                    /\ ~SameColour(
                           AlongAngleZero[p],
                           BuildLayer("outline", base_img, CustomOutline(c)).im[p]))
               => BuildLayer("outline", base_img, CustomOutline(c)).im
                      # layers["outline"]

ConvertedGlowBuilt ==
    /\ pc = "returned"
    /\ "glow" \in DOMAIN layers
    /\ style \in ConvertedGlowStyles

\* C28: the glow strength is monotone in the intensity: for a fixed colour,
\* radius and opacity, a glow of a smaller intensity is at no pixel stronger
\* than the glow built; in particular the intensity 1.5 of a pink glow gives
\* a glow at least as strong as the intensity 1.0.
C28_GlowMonotone ==
    ConvertedGlowBuilt =>
        \A i \in {j \in GlowIntensities : j <= style["glow"]["intensity"]} :
            \A p \in Pixels :
                BuildLayer("glow", base_img, ConvertedGlow(i)).im[p].a
                    <= layers["glow"][p].a

GradientOutlineBuilt ==
    /\ pc = "returned"
    /\ "outline" \in DOMAIN layers
    /\ "gradient" \in DOMAIN style["outline"]

\* The mask _apply_gradient_outline reads, and the mask it dilates it to
OutlineMask == AlphaOf(OutlineBase(base_img))
DilatedMask == Dilate(OutlineMask, IntOfTenths(style["outline"]["width"]))

\* The alpha of the ring after the opacity of the outline is applied
RingAlpha(x) ==
    IF style["outline"]["opacity"] < 100
    THEN ScaleAlpha(x, style["outline"]["opacity"]) ELSE x

\* C29: in _apply_gradient_outline the uint8 subtraction dilated_mask - mask
\* never wraps: after any number of max-filter iterations the dilated mask
\* is at least the mask at every pixel, the ring is the true difference, in
\* 0..255, and a width truncated to 0 gives a ring of 0 everywhere.
C29_RingNeverWraps ==
    GradientOutlineBuilt =>
        \A p \in Pixels :
            /\ \A n \in 0 .. IntOfTenths(style["outline"]["width"]) + 1 :
                   Dilate(OutlineMask, n)[p] >= OutlineMask[p]
            /\ DilatedMask[p] - OutlineMask[p] \in 0 .. 255
            /\ layers["outline"][p].a = RingAlpha(DilatedMask[p] - OutlineMask[p])
            /\ IntOfTenths(style["outline"]["width"]) = 0 =>
                   layers["outline"][p].a = 0

\* A gradient outline around a translucent text pixel, with a ring pixel
C29_Witness ==
    /\ GradientOutlineBuilt
    /\ \E p \in Pixels : OutlineMask[p] > 0 /\ OutlineMask[p] < 255
    /\ \E p \in Pixels : layers["outline"][p].a > 0

\* The step of the loop that blends the inner shadow
InnerShadowBlended ==
    /\ AtBranch("inner_shadow")
    /\ "inner_shadow" \in DOMAIN layers'

\* C30: the inner shadow is blended onto the canvas with its alpha capped at
\* 200: the layer composited has an alpha of at most 200 at every pixel,
\* while layers['inner_shadow'] keeps the layer as apply_inner_shadow
\* returned it, uncapped.
C30_InnerShadowCapped ==
    [][InnerShadowBlended =>
          LET adjusted ==
                  [p \in Pixels |->
                      [layers'["inner_shadow"][p] EXCEPT
                          !.a = Min2(layers'["inner_shadow"][p].a, 200)]]
          IN  /\ \A p \in Pixels : adjusted[p].a <= 200
              /\ result' = AlphaComposite(result, adjusted)
              /\ layers'["inner_shadow"] =
                     apply_inner_shadow(base_img, style).im]_vars

\* An inner shadow whose layer has an alpha above the cap was blended
C30_Witness ==
    /\ pc = "returned"
    /\ "inner_shadow" \in SeqRange(composited)
    /\ \E p \in Pixels : layers["inner_shadow"][p].a > 200

====
